---- MODULE Spec2Model ----
(***************************************************************************)
(* Mark-plan-commit state machine of the package manager core              *)
(* (src/src/core.rs) over the cache adapter (src/src/apt.rs).              *)
(*                                                                         *)
(* The native package library is not part of the repository.  It is       *)
(* modelled by the Apt* operators below over a small package universe:     *)
(* stateful per-package marks (Keep / Install / Delete), MarkInstall with  *)
(* automatic installation of unsatisfied dependencies, MarkDelete without  *)
(* cascade, and a problem resolver that holds back or removes a package    *)
(* whose dependency is not satisfied in the install state.                 *)
(***************************************************************************)
EXTENDS Integers, Sequences, FiniteSets, TLC

VARIABLES
    state,            \* ManagerState variant: Clean / Dirty / Planned / Transitioning
    user_intent,      \* SharedState.user_intent, in the map's iteration order
    planned,          \* payload of the Planned variant (changes, sizes, errors)
    marks,            \* native marks of AptCache.cache
    status,           \* is_installed / is_upgradable as AptCache.cache sees them
    disk,             \* package database on disk (what a new Cache loads)
    fullname_to_id,   \* AptCache.fullname_to_id
    id_to_fullname,   \* AptCache.id_to_fullname
    search,           \* SharedState.search (index, query, results)
    list,             \* SharedState.list
    selected_filter,  \* SharedState.selected_filter
    counts,           \* SharedState.{upgradable,installed,total}_count
    native_arch,      \* AptCache.native_arch
    commits,          \* number of cache transactions invoked so far
    held,             \* packages on hold in the package database (dpkg selections)
    progress,         \* ProgressState shared by the progress callbacks
    acquire,          \* the native library's acquire run: idle / started / pulsed
    walk              \* package_depends_on in progress: its locals and its cache

vars == <<state, user_intent, planned, marks, status, disk, fullname_to_id,
          id_to_fullname, search, list, selected_filter, counts, native_arch,
          commits, held, progress, acquire, walk>>

(***************************************************************************)
(* Package universe (the on-disk metadata the native library loads).       *)
(***************************************************************************)

\* A fullname is <<base name, architecture>>; a bare name is <<base name>>.
FN(base) == <<base, native_arch>>

\* Packages known to the cache, in the cache's iteration order.
CacheOrder == << FN("mid"), FN("app"), FN("lib") >>

Universe == { CacheOrder[i] : i \in 1..Len(CacheOrder) }

\* Depends edges of each candidate version: target base name, and whether
\* only the target's candidate version satisfies the dependency.
Dep(n, new) == [kind |-> "Depends", name |-> n, needNew |-> new]

Depends(p) ==
    CASE p[1] = "app" -> { Dep("mid", TRUE) }
      [] p[1] = "mid" -> { Dep("lib", TRUE) }
      [] OTHER        -> {}

\* Size of the candidate's archive and of its unpacked files.
DownloadSize(p) ==
    CASE p[1] = "app" -> 3 [] p[1] = "mid" -> 4 [] OTHER -> 2

InstalledSize(p) ==
    CASE p[1] = "app" -> 7 [] p[1] = "mid" -> 9 [] OTHER -> 5

InitialDisk ==
    [p \in Universe |->
        CASE p[1] = "app" -> "NotInstalled"
          [] OTHER        -> "Upgradable"]

NoMarks == [p \in Universe |-> "Keep"]

(***************************************************************************)
(* Native library: marks and resolver.                                     *)
(***************************************************************************)

IsInstalled(st, p) == st[p] \in {"Installed", "Upgradable"}

\* the packages the loaded cache knows; "Absent" is a package the package
\* lists did not hold when the cache was loaded
InCache(st, p) == st[p] # "Absent"

\* p is present once the marks are applied
InstPresent(m, st, p) ==
    \/ m[p] = "Install"
    \/ IsInstalled(st, p) /\ m[p] # "Delete"

\* p is present at its candidate version once the marks are applied
InstNew(m, st, p) ==
    \/ m[p] = "Install"
    \/ st[p] = "Installed" /\ m[p] # "Delete"

DepSatisfied(m, st, d) ==
    LET t == FN(d.name) IN
    /\ t \in Universe
    /\ IF d.needNew THEN InstNew(m, st, t) ELSE InstPresent(m, st, t)

\* Dependencies of the version of p that the marks leave on the system: the
\* candidate's, or the installed older version's (same targets, any version).
InstDeps(m, st, p) ==
    IF m[p] = "Install" \/ st[p] = "Installed"
    THEN Depends(p)
    ELSE { Dep(d.name, FALSE) : d \in Depends(p) }

\* pkgDepCache::MarkKeep
AptMarkKeep(m, p) == [m EXCEPT ![p] = "Keep"]

\* pkgDepCache::MarkDelete(purge = false): a package that is not installed
\* goes back to Keep, an installed one is marked Delete.  No cascade.
AptMarkDelete(m, st, p) ==
    [m EXCEPT ![p] = IF IsInstalled(st, p) THEN "Delete" ELSE "Keep"]

\* pkgDepCache::MarkInstall(auto_inst = true): a package already at its
\* candidate version is only taken out of Delete; otherwise it is marked and
\* every dependency the install state does not satisfy is marked in turn.
\* The marks of dependencies are not the user's: a held package refuses them.
RECURSIVE AptMarkInstall(_, _, _)
RECURSIVE AptMarkDeps(_, _, _)
AptMarkDeps(m, st, ds) ==
    IF ds = {} THEN m
    ELSE LET d  == CHOOSE x \in ds : TRUE
             m1 == IF \/ DepSatisfied(m, st, d)
                      \/ FN(d.name) \notin Universe
                      \/ FN(d.name) \in held
                   THEN m
                   ELSE AptMarkInstall(m, st, FN(d.name))
         IN  AptMarkDeps(m1, st, ds \ {d})

AptMarkInstall(m, st, p) ==
    IF st[p] = "Installed"
    THEN (IF m[p] = "Delete" THEN AptMarkKeep(m, p) ELSE m)
    ELSE IF m[p] = "Install" THEN m
    ELSE AptMarkDeps([m EXCEPT ![p] = "Install"], st, Depends(p))

Broken(m, st) ==
    { p \in Universe :
        /\ InstPresent(m, st, p)
        /\ \E d \in InstDeps(m, st, p) : ~DepSatisfied(m, st, d) }

\* Broken packages the resolver may change: one marked for install can be
\* kept back, an installed one can be removed unless it is on hold
Fixable(m, st) ==
    { p \in Broken(m, st) : m[p] = "Install" \/ p \notin held }

\* pkgProblemResolver::Resolve(fix_broken = true): a broken package is held
\* back when that repairs it and removed otherwise, until nothing is broken
\* or what is left broken is on hold.
RECURSIVE AptResolve(_, _)
AptResolve(m, st) ==
    IF Fixable(m, st) = {} THEN m
    ELSE LET p == CHOOSE x \in Fixable(m, st) : TRUE IN
         AptResolve([m EXCEPT ![p] = IF m[p] = "Install" THEN "Keep" ELSE "Delete"], st)

\* Cache::get_changes: packages with an active mark, in cache order
AptGetChanges(m) == SelectSeq(CacheOrder, LAMBDA p : m[p] # "Keep")

\* AptCache::clear_all_marks: mark_keep on every package get_changes returns
RECURSIVE KeepAll(_, _)
KeepAll(m, ps) ==
    IF ps = <<>> THEN m ELSE KeepAll(AptMarkKeep(m, Head(ps)), Tail(ps))

clear_all_marks(m) == KeepAll(m, AptGetChanges(m))

(***************************************************************************)
(* Option values: None is the empty sequence, Some(x) is <<x>>.            *)
(***************************************************************************)

None == <<>>

Some(x) == <<x>>

(***************************************************************************)
(* Handle registry (AptCache::fullname_to_id / id_to_fullname).            *)
(* A PackageId is the 0-based index into id_to_fullname.                   *)
(***************************************************************************)

\* AptCache::fullname_of
fullname_of(M, id) ==
    IF id \in 0..(Len(M.id_to_fullname) - 1)
    THEN Some(M.id_to_fullname[id + 1])
    ELSE None

\* AptCache::get_id
get_id(M, fullname) ==
    IF fullname \in DOMAIN M.fullname_to_id
    THEN Some(M.fullname_to_id[fullname])
    ELSE None

\* AptCache::id_for: the manager with the name registered, and its handle
id_for(M, fullname) ==
    IF fullname \in DOMAIN M.fullname_to_id
    THEN [M |-> M, id |-> M.fullname_to_id[fullname]]
    ELSE LET id == Len(M.id_to_fullname) IN
         [M  |-> [M EXCEPT
                    !.id_to_fullname = Append(@, fullname),
                    !.fullname_to_id =
                        [n \in DOMAIN @ \cup {fullname} |->
                            IF n = fullname THEN id ELSE @[n]]],
          id |-> id]

\* AptCache::new: handles in cache iteration order
RegistryOf(order) ==
    [id_to_fullname |-> order,
     fullname_to_id |->
        [n \in { order[i] : i \in 1..Len(order) } |->
            (CHOOSE i \in 1..Len(order) : order[i] = n) - 1]]

(***************************************************************************)
(* Intent store: HashMap<PackageId, UserIntent>, kept as the sequence of   *)
(* its entries in iteration order.  The order is unspecified: a new key    *)
(* may land anywhere among the others.                                     *)
(***************************************************************************)

IntentIds(ui) == { ui[i].id : i \in 1..Len(ui) }

contains_key(ui, id) == id \in IntentIds(ui)

\* HashMap::get(..).copied().unwrap_or(Default)
intent_get(ui, id) ==
    IF contains_key(ui, id)
    THEN ui[CHOOSE i \in 1..Len(ui) : ui[i].id = id].intent
    ELSE "Default"

\* HashMap::insert, the new entry at iteration position pos if the key is new
intent_insert(ui, id, intent, pos) ==
    IF contains_key(ui, id)
    THEN [i \in 1..Len(ui) |->
            IF ui[i].id = id THEN [id |-> id, intent |-> intent] ELSE ui[i]]
    ELSE SubSeq(ui, 1, pos - 1) \o << [id |-> id, intent |-> intent] >>
         \o SubSeq(ui, pos, Len(ui))

\* HashMap::remove
intent_remove(ui, id) == SelectSeq(ui, LAMBDA e : e.id # id)

Positions(ui, id) ==
    IF contains_key(ui, id) THEN {1} ELSE 1..(Len(ui) + 1)

(***************************************************************************)
(* PackageManager<S>: the typestate operations.  M is the manager value:   *)
(* the ManagerState variant tag, the Planned payload and SharedState.      *)
(***************************************************************************)

NoPlan == [changes |-> <<>>, download_size |-> 0, install_size_change |-> 0,
           errors |-> <<>>]

\* AptCache::mark_install_id / mark_delete_id / mark_keep_id on the native marks
mark_install_id(M, m, id) ==
    LET n == fullname_of(M, id) IN
    IF n # None /\ n[1] \in Universe THEN AptMarkInstall(m, M.status, n[1]) ELSE m

mark_delete_id(M, m, id) ==
    LET n == fullname_of(M, id) IN
    IF n # None /\ n[1] \in Universe THEN AptMarkDelete(m, M.status, n[1]) ELSE m

mark_keep_id(M, m, id) ==
    LET n == fullname_of(M, id) IN
    IF n # None /\ n[1] \in Universe THEN AptMarkKeep(m, n[1]) ELSE m

\* plan() step 2: apply the Intent entries in the map's iteration order
RECURSIVE ApplyIntent(_, _, _)
ApplyIntent(M, m, ui) ==
    IF ui = <<>> THEN m
    ELSE LET e  == Head(ui)
             m1 == CASE e.intent = "Install" -> mark_install_id(M, m, e.id)
                     [] e.intent = "Remove"  -> mark_delete_id(M, m, e.id)
                     [] e.intent = "Hold"    -> mark_keep_id(M, m, e.id)
                     [] OTHER                -> m
         IN  ApplyIntent(M, m1, Tail(ui))

\* plan() step 3: AptCache::resolve and format_apt_errors
ResolveErrors(m, st) ==
    IF Broken(AptResolve(m, st), st) = {} THEN <<>>
    ELSE << "Dependency resolution failed" >>

\* Mutant of ClassifyChange: a marked package is an Install whether or not it
\* is installed
ClassifyChange_IgnoresInstalled(M, m, p, id) ==
    LET is_installed   == IsInstalled(M.status, p)
        marked_install == m[p] = "Install" /\ ~is_installed
        marked_upgrade == m[p] = "Install" /\ is_installed
        marked_delete  == m[p] = "Delete"
        is_user_requested == contains_key(M.user_intent, id)
        action == IF marked_install \/ marked_upgrade THEN "Install" ELSE "Remove"
        reason == IF is_user_requested THEN "UserRequested"
                  ELSE IF action = "Remove" THEN "AutoRemove" ELSE "Dependency"
    IN  IF ~(marked_install \/ marked_upgrade \/ marked_delete) THEN None
        ELSE Some([package |-> id, action |-> action, reason |-> reason,
                   download_size |-> DownloadSize(p),
                   size_change |-> IF action = "Remove"
                                   THEN 0 - InstalledSize(p)
                                   ELSE InstalledSize(p)])

\* plan() step 4, one package of get_changes: the PlannedChange, or None
ClassifyChange(M, m, p, id) ==
    LET is_installed   == IsInstalled(M.status, p)
        marked_install == m[p] = "Install" /\ ~is_installed
        marked_upgrade == m[p] = "Install" /\ is_installed
        marked_delete  == m[p] = "Delete"
        is_user_requested == contains_key(M.user_intent, id)
        action == IF marked_install \/ marked_upgrade
                  THEN (IF is_installed THEN "Upgrade" ELSE "Install")
                  ELSE "Remove"
        reason == IF is_user_requested THEN "UserRequested"
                  ELSE IF action = "Remove" THEN "AutoRemove" ELSE "Dependency"
    IN  IF ~(marked_install \/ marked_upgrade \/ marked_delete) THEN None
        ELSE Some([package |-> id, action |-> action, reason |-> reason,
                   download_size |-> DownloadSize(p),
                   size_change |-> IF action = "Remove"
                                   THEN 0 - InstalledSize(p)
                                   ELSE InstalledSize(p)])

\* Mutant of BuildChanges: the installed-size total adds up the download sizes
RECURSIVE BuildChanges_SumsDownloads(_, _, _, _)
BuildChanges_SumsDownloads(M, m, ps, acc) ==
    IF ps = <<>> THEN [M |-> M, planned |-> acc]
    ELSE LET r  == id_for(M, Head(ps))
             c  == ClassifyChange(r.M, m, Head(ps), r.id)
             a1 == IF c = None THEN acc
                   ELSE [acc EXCEPT
                           !.changes = Append(@, c[1]),
                           !.download_size = @ + c[1].download_size,
                           !.install_size_change = @ + c[1].download_size]
         IN  BuildChanges_SumsDownloads(r.M, m, Tail(ps), a1)

\* plan() step 4: walk get_changes, registering names and summing sizes
RECURSIVE BuildChanges(_, _, _, _)
BuildChanges(M, m, ps, acc) ==
    IF ps = <<>> THEN [M |-> M, planned |-> acc]
    ELSE LET r  == id_for(M, Head(ps))
             c  == ClassifyChange(r.M, m, Head(ps), r.id)
             a1 == IF c = None THEN acc
                   ELSE [acc EXCEPT
                           !.changes = Append(@, c[1]),
                           !.download_size = @ + c[1].download_size,
                           !.install_size_change = @ + c[1].size_change]
         IN  BuildChanges(r.M, m, Tail(ps), a1)

\* Mutant of PM_plan: a resolver error aborts the plan and the manager stays
\* Dirty
PM_plan_AbortsOnConflict(M) ==
    LET m0 == clear_all_marks(M.marks)
        m1 == ApplyIntent(M, m0, M.user_intent)
        m2 == AptResolve(m1, M.status)
        b  == BuildChanges(M, m2, AptGetChanges(m2),
                           [NoPlan EXCEPT !.errors = ResolveErrors(m1, M.status)])
    IN  IF ResolveErrors(m1, M.status) # <<>> THEN [M EXCEPT !.marks = m2]
        ELSE [b.M EXCEPT !.state = "Planned", !.marks = m2, !.planned = b.planned]

\* PackageManager<Dirty>::plan
PM_plan(M) ==
    LET m0 == clear_all_marks(M.marks)
        m1 == ApplyIntent(M, m0, M.user_intent)
        m2 == AptResolve(m1, M.status)
        b  == BuildChanges(M, m2, AptGetChanges(m2),
                           [NoPlan EXCEPT !.errors = ResolveErrors(m1, M.status)])
    IN  [b.M EXCEPT !.state = "Planned", !.marks = m2, !.planned = b.planned]

\* PackageManager<Planned>::modify
PM_modify(M) == [M EXCEPT !.state = "Dirty", !.planned = NoPlan]

\* PackageManager<Clean/Dirty>::mark_install / mark_remove
PM_mark(M, id, intent, pos) ==
    [M EXCEPT !.state = "Dirty",
              !.user_intent = intent_insert(@, id, intent, pos)]

\* PackageManager<Dirty>::unmark
PM_unmark(M, id) == [M EXCEPT !.user_intent = intent_remove(@, id)]

\* Mutant of PM_set_intent: Default is stored like any other intent
PM_set_intent_StoresDefault(M, id, intent, pos) ==
    [M EXCEPT !.user_intent = intent_insert(@, id, intent, pos)]

\* PackageManager<Dirty>::set_intent
PM_set_intent(M, id, intent, pos) ==
    IF intent = "Default"
    THEN [M EXCEPT !.user_intent = intent_remove(@, id)]
    ELSE [M EXCEPT !.user_intent = intent_insert(@, id, intent, pos)]

\* Mutant of PM_reset: the native marks are not cleared
PM_reset_KeepsMarks(M) ==
    [M EXCEPT !.state = "Clean", !.user_intent = <<>>]

\* PackageManager<Dirty>::reset
PM_reset(M) ==
    [M EXCEPT !.state = "Clean", !.user_intent = <<>>,
              !.marks = clear_all_marks(@)]

\* PackageManager<Dirty>::has_marks
PM_has_marks(M) == M.user_intent # <<>>

(***************************************************************************)
(* List projection.                                                        *)
(***************************************************************************)

\* PackageId(u32::MAX), the handle of a name the registry does not know; the
\* value exceeds the integers of the checker and is kept as -1
U32Max == -1

\* Fullnames in the order of String::cmp
SortedNames == << FN("app"), FN("lib"), FN("mid") >>

NameRank(n) == CHOOSE i \in 1..Len(SortedNames) : SortedNames[i] = n

\* PackageStatus::is_marked
is_marked(s) == s \in {"MarkedForInstall", "MarkedForUpgrade", "MarkedForRemove"}

\* AptCache::extract_package_info: the row with its base status
extract_package_info(M, p) ==
    LET id == get_id(M, p) IN
    [id     |-> IF id = None THEN U32Max ELSE id[1],
     name   |-> p,
     status |-> CASE M.status[p] = "Upgradable" -> "Upgradable"
                  [] M.status[p] = "Installed"  -> "Installed"
                  [] OTHER                      -> "NotInstalled"]

\* Mutant of matches_filter: a search without matches filters nothing
matches_filter_EmptyMeansAll(M, p) ==
    LET has_user_intent ==
            /\ p \in DOMAIN M.fullname_to_id
            /\ contains_key(M.user_intent, M.fullname_to_id[p])
        matches_category ==
            CASE M.selected_filter = "Upgradable"    -> M.status[p] = "Upgradable"
              [] M.selected_filter = "MarkedChanges" ->
                    has_user_intent \/ M.marks[p] # "Keep"
              [] M.selected_filter = "Installed"     -> IsInstalled(M.status, p)
              [] M.selected_filter = "NotInstalled"  -> ~IsInstalled(M.status, p)
              [] OTHER                               -> TRUE
        matches_search ==
            IF M.search.results = None \/ M.search.results = Some({}) THEN TRUE
            ELSE p[1] \in M.search.results[1]
    IN  matches_category /\ matches_search

\* rebuild_list, first pass: the category and search filter on one package
matches_filter(M, p) ==
    LET has_user_intent ==
            /\ p \in DOMAIN M.fullname_to_id
            /\ contains_key(M.user_intent, M.fullname_to_id[p])
        matches_category ==
            CASE M.selected_filter = "Upgradable"    -> M.status[p] = "Upgradable"
              [] M.selected_filter = "MarkedChanges" ->
                    has_user_intent \/ M.marks[p] # "Keep"
              [] M.selected_filter = "Installed"     -> IsInstalled(M.status, p)
              [] M.selected_filter = "NotInstalled"  -> ~IsInstalled(M.status, p)
              [] OTHER                               -> TRUE
        matches_search ==
            IF M.search.results = None THEN TRUE
            ELSE p[1] \in M.search.results[1]
    IN  matches_category /\ matches_search

\* rebuild_list, second pass: the status of a row under the user's intent
intent_status(M, row) ==
    LET intent == intent_get(M.user_intent, row.id) IN
    CASE intent = "Install" ->
            IF row.status = "Upgradable" THEN "MarkedForUpgrade"
            ELSE "MarkedForInstall"
      [] intent = "Remove"  -> "MarkedForRemove"
      [] intent = "Hold"    -> "Keep"
      [] OTHER              -> row.status

\* PackageManager::sort_list (sort by name, ascending): stable insertion sort
RECURSIVE InsertRow(_, _)
InsertRow(row, rows) ==
    IF rows = <<>> THEN << row >>
    ELSE IF NameRank(row.name) < NameRank(Head(rows).name)
         THEN << row >> \o rows
         ELSE << Head(rows) >> \o InsertRow(row, Tail(rows))

RECURSIVE sort_list(_)
sort_list(rows) ==
    IF rows = <<>> THEN <<>>
    ELSE InsertRow(rows[Len(rows)], sort_list(SubSeq(rows, 1, Len(rows) - 1)))

\* PackageManager::rebuild_list
PM_rebuild_list(M) ==
    LET matching == SelectSeq(CacheOrder,
                              LAMBDA p : InCache(M.status, p) /\ matches_filter(M, p))
        rows == [i \in 1..Len(matching) |->
                    LET info == extract_package_info(M, matching[i]) IN
                    [info EXCEPT !.status = intent_status(M, info)]]
    IN  [M EXCEPT !.list = sort_list(rows)]

\* PackageManager::apply_filter
PM_apply_filter(M, f) == PM_rebuild_list([M EXCEPT !.selected_filter = f])

\* PackageManager<Planned>::apply_planned_statuses
apply_planned_statuses(M) ==
    LET ch == M.planned.changes
        planned_ids == { ch[i].package : i \in 1..Len(ch) }
        \* collecting into the map keeps the last change of a handle
        action_of(id) ==
            ch[CHOOSE i \in 1..Len(ch) :
                 /\ ch[i].package = id
                 /\ \A j \in (i + 1)..Len(ch) : ch[j].package # id].action
        marked_status(a) ==
            CASE a = "Install" -> "MarkedForInstall"
              [] a = "Remove"  -> "MarkedForRemove"
              [] OTHER         -> "MarkedForUpgrade"
        rows == M.list
    IN  [M EXCEPT !.list =
            [i \in 1..Len(rows) |->
                IF rows[i].id \in planned_ids
                THEN [rows[i] EXCEPT !.status = marked_status(action_of(rows[i].id))]
                ELSE rows[i]]]

\* SharedState::compute_cache_counts
compute_cache_counts(M) ==
    [M EXCEPT !.counts =
        [total      |-> Cardinality({ p \in Universe : InCache(M.status, p) }),
         installed  |-> Cardinality({ p \in Universe : IsInstalled(M.status, p) }),
         upgradable |-> Cardinality({ p \in Universe : M.status[p] = "Upgradable" })]]

(***************************************************************************)
(* ManagerState: the wrapper enum and its operations.                      *)
(***************************************************************************)

\* ManagerState::is_clean / is_dirty / is_planned
is_clean(M) == M.state = "Clean"

is_dirty(M) == M.state = "Dirty"

is_planned(M) == M.state = "Planned"

\* ManagerState::planned_changes
planned_changes(M) ==
    IF M.state = "Planned" THEN Some(M.planned.changes) ELSE None

\* ManagerState::plan_errors
plan_errors(M) ==
    IF M.state = "Planned" THEN Some(M.planned.errors) ELSE None

\* ManagerState::has_marks
has_marks(M) ==
    CASE M.state = "Clean"   -> FALSE
      [] M.state = "Dirty"   -> PM_has_marks(M)
      [] M.state = "Planned" -> M.user_intent # <<>>
      [] OTHER               -> "panic"

\* ManagerState::is_user_marked
is_user_marked(M, id) ==
    IF M.state = "Transitioning" THEN "panic"
    ELSE contains_key(M.user_intent, id)

\* ManagerState::user_intent
user_intent_of(M, id) ==
    IF M.state = "Transitioning" THEN "panic"
    ELSE intent_get(M.user_intent, id)

\* Mutant of MS_mark: a Planned manager keeps its plan when a mark is added
MS_mark_KeepsPlan(M, id, intent, pos) ==
    [PM_mark(M, id, intent, pos) EXCEPT !.state = IF M.state = "Planned" THEN "Planned" ELSE "Dirty",
                                        !.planned = M.planned]

\* ManagerState::mark_install / mark_remove
MS_mark(M, id, intent, pos) ==
    IF M.state = "Planned"
    THEN PM_mark(PM_modify(M), id, intent, pos)
    ELSE PM_mark(M, id, intent, pos)

\* Mutant of MS_unmark: no early return for a handle without a user mark
MS_unmark_AlwaysModifies(M, id) ==
    CASE M.state = "Clean"   -> M
      [] M.state = "Dirty"   -> PM_unmark(M, id)
      [] M.state = "Planned" -> PM_unmark(PM_modify(M), id)

\* ManagerState::unmark
MS_unmark(M, id) ==
    IF ~contains_key(M.user_intent, id) THEN M
    ELSE CASE M.state = "Clean"   -> M
           [] M.state = "Dirty"   -> PM_unmark(M, id)
           [] M.state = "Planned" -> PM_unmark(PM_modify(M), id)

\* Mutant of MS_reset: a Planned manager only drops its plan
MS_reset_OnlyDropsPlan(M) ==
    CASE M.state = "Clean"   -> M
      [] M.state = "Dirty"   -> PM_reset(M)
      [] M.state = "Planned" -> PM_modify(M)

\* ManagerState::reset
MS_reset(M) ==
    CASE M.state = "Clean"   -> M
      [] M.state = "Dirty"   -> PM_reset(M)
      [] M.state = "Planned" -> PM_reset(PM_modify(M))

\* Mutant of MS_compute_plan: a Dirty manager without marks goes back to Clean
MS_compute_plan_SkipsEmptyIntent(M) ==
    CASE M.state = "Clean"   -> M
      [] M.state = "Dirty"   -> IF M.user_intent = <<>>
                                THEN [M EXCEPT !.state = "Clean"]
                                ELSE PM_plan(M)
      [] M.state = "Planned" -> M

\* ManagerState::compute_plan
MS_compute_plan(M) ==
    CASE M.state = "Clean"   -> M
      [] M.state = "Dirty"   -> PM_plan(M)
      [] M.state = "Planned" -> M

\* ManagerState::filter_count
filter_count(M, filter) ==
    CASE filter = "Upgradable"    -> M.counts.upgradable
      [] filter = "MarkedChanges" -> Len(M.user_intent)
      [] filter = "Installed"     -> M.counts.installed
      [] filter = "NotInstalled"  -> M.counts.total - M.counts.installed
      [] OTHER                    -> M.counts.total

\* ManagerState::rebuild_list
MS_rebuild_list(M) ==
    IF M.state = "Planned"
    THEN apply_planned_statuses(PM_rebuild_list(M))
    ELSE PM_rebuild_list(M)

\* ManagerState::apply_filter
MS_apply_filter(M, f) == PM_apply_filter(M, f)

(***************************************************************************)
(* Toggle engine.                                                          *)
(***************************************************************************)

\* Cache::get on a fullname or on a bare name (the native package)
CacheGet(n) ==
    IF n \in Universe THEN Some(n)
    ELSE IF Len(n) = 1 /\ FN(n[1]) \in Universe THEN Some(FN(n[1]))
    ELSE None

\* AptCache::get_dependencies: (kind, target name) of the candidate
get_dependencies(n) ==
    LET pkg == CacheGet(n) IN
    IF pkg = None THEN {}
    ELSE { << d.kind, d.name >> : d \in Depends(pkg[1]) }

RECURSIVE SetToSeq(_)
SetToSeq(S) ==
    IF S = {} THEN <<>>
    ELSE LET x == CHOOSE y \in S : TRUE IN << x >> \o SetToSeq(S \ {x})

\* the names package_depends_on pushes for the dependencies of one package
PushedNames(M, deps) ==
    LET followed(d) ==
            IF << d[2] >> \in DOMAIN M.fullname_to_id
            THEN get_id(M, << d[2] >>)
            ELSE get_id(M, << d[2], "amd64" >>)
        names == { fullname_of(M, followed(d)[1])[1] :
                     d \in { e \in deps : /\ followed(e) # None
                                          /\ fullname_of(M, followed(e)[1]) # None } }
    IN  SetToSeq(names)

\* ManagerState::package_depends_on: the work-list loop
RECURSIVE DependsWalk(_, _, _, _)
DependsWalk(M, to_check, visited, target_base) ==
    IF to_check = <<>> THEN FALSE
    ELSE LET current == to_check[Len(to_check)]
             rest    == SubSeq(to_check, 1, Len(to_check) - 1)
             deps    == { d \in get_dependencies(current) :
                            d[1] \in {"Depends", "PreDepends"} }
         IN  IF current \in visited
             THEN DependsWalk(M, rest, visited, target_base)
             ELSE IF \E d \in deps : d[2] = target_base THEN TRUE
             ELSE DependsWalk(M, rest \o PushedNames(M, deps),
                              visited \cup {current}, target_base)

package_depends_on(M, pkg_name, target_base) ==
    DependsWalk(M, << pkg_name >>, {}, target_base)

\* package_depends_on as a loop over its locals.  W.graph is the cache: the
\* dependencies of the candidate of each registered package.  A dependency
\* name resolves through fullname_to_id under "<name>:amd64" (no fullname is
\* a bare name), so on an amd64 system exactly the names of DOMAIN W.graph
\* resolve.  expanded counts the calls of get_dependencies per package and
\* turns counts the turns of the loop.
NoWalk ==
    [pc |-> "idle", graph |-> << >>, target_base |-> "", to_check |-> << >>,
     visited |-> {}, result |-> FALSE, expanded |-> << >>, turns |-> 0]

walk_enter(graph, pkg_name, target_base) ==
    [pc |-> "running", graph |-> graph, target_base |-> target_base,
     to_check |-> << pkg_name >>, visited |-> {}, result |-> FALSE,
     expanded |-> [n \in DOMAIN graph |-> 0], turns |-> 0]

\* the names one turn pushes for the dependencies `deps`
walk_pushes(W, deps) ==
    LET followed == SetToSeq({ e \in deps : e[2] \in DOMAIN W.graph }) IN
    [i \in 1..Len(followed) |-> followed[i][2]]

\* Mutant of walk_step: the visited set is not consulted
walk_step_IgnoresVisited(W) ==
    IF W.to_check = <<>> THEN [W EXCEPT !.pc = "done", !.result = FALSE]
    ELSE LET current == W.to_check[Len(W.to_check)]
             rest    == SubSeq(W.to_check, 1, Len(W.to_check) - 1)
             deps    == { d \in W.graph[current] : d[1] \in {"Depends", "PreDepends"} }
             W1      == [W EXCEPT !.turns = @ + 1, !.to_check = rest]
             W2 == [W1 EXCEPT !.visited = @ \cup {current},
                              !.expanded[current] = @ + 1]
         IN  IF \E d \in deps : d[2] = W.target_base
             THEN [W2 EXCEPT !.pc = "done", !.result = TRUE]
             ELSE [W2 EXCEPT !.to_check = rest \o walk_pushes(W, deps)]

\* ManagerState::package_depends_on: one turn of the while loop, or its exit
walk_step(W) ==
    IF W.to_check = <<>> THEN [W EXCEPT !.pc = "done", !.result = FALSE]
    ELSE LET current == W.to_check[Len(W.to_check)]
             rest    == SubSeq(W.to_check, 1, Len(W.to_check) - 1)
             deps    == { d \in W.graph[current] : d[1] \in {"Depends", "PreDepends"} }
             W1      == [W EXCEPT !.turns = @ + 1, !.to_check = rest]
         IN  IF current \in W.visited THEN W1
             ELSE LET W2 == [W1 EXCEPT !.visited = @ \cup {current},
                                       !.expanded[current] = @ + 1]
                  IN  IF \E d \in deps : d[2] = W.target_base
                      THEN [W2 EXCEPT !.pc = "done", !.result = TRUE]
                      ELSE [W2 EXCEPT !.to_check = rest \o walk_pushes(W, deps)]

\* ManagerState::find_user_intent_depending_on
find_user_intent_depending_on(M, target_id) ==
    LET target_name == fullname_of(M, target_id) IN
    IF target_name = None THEN <<>>
    ELSE LET target_base == target_name[1][1]
             hit(e) == /\ fullname_of(M, e.id) # None
                       /\ package_depends_on(M, fullname_of(M, e.id)[1], target_base)
             found == SelectSeq(M.user_intent, hit)
         IN  [i \in 1..Len(found) |-> found[i].id]

\* handles of the rows of list() whose status is a Marked* status, in list order
MarkedRows(M) ==
    LET rows == SelectSeq(M.list, LAMBDA r : is_marked(r.status)) IN
    [i \in 1..Len(rows) |-> rows[i].id]

SeqRange(q) == { q[i] : i \in 1..Len(q) }

RECURSIVE UnmarkAll(_, _)
UnmarkAll(M, ids) ==
    IF ids = <<>> THEN M ELSE UnmarkAll(MS_unmark(M, Head(ids)), Tail(ids))

\* ManagerState::toggle_mark_impl
toggle_mark_impl(M, id, pos) ==
    LET marked_before == SeqRange(MarkedRows(M))
        M1 == MS_rebuild_list(MS_compute_plan(MS_mark(M, id, "Install", pos)))
        newly_marked == SelectSeq(MarkedRows(M1),
                                  LAMBDA h : h \notin marked_before /\ h # id)
    IN  [M |-> M1,
         res |-> [kind |-> "Marked", package |-> id, others |-> newly_marked]]

\* ManagerState::toggle_unmark
toggle_unmark(M, id) ==
    LET marked_before == MarkedRows(M)
        to_remove == IF contains_key(M.user_intent, id) THEN << id >>
                     ELSE find_user_intent_depending_on(M, id)
        M1 == MS_rebuild_list(MS_compute_plan(UnmarkAll(M, to_remove)))
        marked_after == SeqRange(MarkedRows(M1))
        also_unmarked == SelectSeq(marked_before,
                                   LAMBDA h : h \notin marked_after /\ h # id)
    IN  IF id \in marked_after
        THEN [M |-> M1,
              res |-> [kind |-> "NoChange", package |-> id, others |-> <<>>]]
        ELSE [M |-> M1,
              res |-> [kind |-> "Unmarked", package |-> id, others |-> also_unmarked]]

\* ManagerState::toggle
MS_toggle(M, id, pos) ==
    LET M0 == MS_rebuild_list(MS_compute_plan(M))
        is_currently_marked == \E i \in 1..Len(M0.list) :
                                  /\ M0.list[i].id = id
                                  /\ \A j \in 1..(i - 1) : M0.list[j].id # id
                                  /\ is_marked(M0.list[i].status)
    IN  IF is_currently_marked THEN toggle_unmark(M0, id)
        ELSE toggle_mark_impl(M0, id, pos)

\* AptCache::display_name: the fullname without the native architecture
display_name(arch, n) == IF n[2] = arch THEN << n[1] >> ELSE n

\* the name build_mark_preview lists for the package of a change
preview_name(M, id) ==
    IF fullname_of(M, id) = None THEN << "(unknown)", id >>
    ELSE display_name(native_arch, fullname_of(M, id)[1])

\* Mutant of preview_loop: the changes planned before are listed as well
RECURSIVE preview_loop_ListsPlanned(_, _, _, _, _)
preview_loop_ListsPlanned(M, changes, id, previously_planned, acc) ==
    IF changes = <<>> THEN acc
    ELSE LET c == Head(changes)
             name == preview_name(M, c.package)
             sized == [acc EXCEPT !.download_size = @ + c.download_size]
             next ==
                IF c.package = id
                THEN [sized EXCEPT !.is_upgrade = (c.action = "Upgrade")]
                ELSE CASE c.action = "Install" ->
                            [sized EXCEPT !.additional_installs = Append(@, name)]
                       [] c.action = "Remove" ->
                            [sized EXCEPT !.additional_removes = Append(@, name)]
                       [] OTHER ->
                            [sized EXCEPT !.additional_upgrades = Append(@, name)]
         IN  preview_loop_ListsPlanned(M, Tail(changes), id, previously_planned, next)

\* ManagerState::build_mark_preview: the loop over the changes
RECURSIVE preview_loop(_, _, _, _, _)
preview_loop(M, changes, id, previously_planned, acc) ==
    IF changes = <<>> THEN acc
    ELSE LET c == Head(changes)
             name == preview_name(M, c.package)
             sized == [acc EXCEPT !.download_size = @ + c.download_size]
             next ==
                IF c.package = id
                THEN [sized EXCEPT !.is_upgrade = (c.action = "Upgrade")]
                ELSE IF c.package \in previously_planned THEN acc
                ELSE CASE c.action = "Install" ->
                            [sized EXCEPT !.additional_installs = Append(@, name)]
                       [] c.action = "Remove" ->
                            [sized EXCEPT !.additional_removes = Append(@, name)]
                       [] OTHER ->
                            [sized EXCEPT !.additional_upgrades = Append(@, name)]
         IN  preview_loop(M, Tail(changes), id, previously_planned, next)

\* ManagerState::build_mark_preview
build_mark_preview(M, id, previously_planned) ==
    IF planned_changes(M) = None \/ fullname_of(M, id) = None THEN None
    ELSE Some(preview_loop(M, planned_changes(M)[1], id, previously_planned,
                 [package_name |-> display_name(native_arch, fullname_of(M, id)[1]),
                  is_upgrade |-> FALSE, is_marking |-> TRUE,
                  was_user_marked |-> FALSE,
                  additional_installs |-> <<>>, additional_upgrades |-> <<>>,
                  additional_removes |-> <<>>, download_size |-> 0]))

(***************************************************************************)
(* Commit and refresh.                                                     *)
(***************************************************************************)

\* What the installer leaves on disk for the packages in `applied`
ApplyMarks(d, m, applied) ==
    [p \in Universe |->
        IF p \notin applied THEN d[p]
        ELSE CASE m[p] = "Install" -> "Installed"
               [] m[p] = "Delete"  -> "NotInstalled"
               [] OTHER            -> d[p]]

Changed(m) == { p \in Universe : m[p] # "Keep" }

\* AptCache::commit: a new Cache replaces self.cache, the old one runs the
\* transaction.  out.kind is "ok", "new_fails" (Cache::new fails, nothing is
\* replaced) or "commit_fails" (the transaction fails after installing the
\* packages in out.applied).
AptCache_commit(M, d, out) ==
    IF out.kind = "new_fails" THEN [M |-> M, disk |-> d, ok |-> FALSE]
    ELSE [M    |-> [M EXCEPT !.marks = NoMarks, !.status = d],
          disk |-> ApplyMarks(d, M.marks, out.applied),
          ok   |-> out.kind = "ok"]

\* AptCache::commit_with_progress
AptCache_commit_with_progress(M, d, out) == AptCache_commit(M, d, out)

\* Mutant of PM_commit: the Intent survives a successful commit
PM_commit_KeepsIntent(M, d, out, with_progress) ==
    LET r == IF with_progress THEN AptCache_commit_with_progress(M, d, out)
             ELSE AptCache_commit(M, d, out)
    IN  IF ~r.ok THEN r
        ELSE [r EXCEPT !.M = [r.M EXCEPT !.state = "Clean",
                                         !.planned = NoPlan,
                                         !.search.index = FALSE]]

\* PackageManager<Planned>::commit / commit_with_progress: Err leaves the
\* consumed manager as the failing call left it
PM_commit(M, d, out, with_progress) ==
    LET r == IF with_progress THEN AptCache_commit_with_progress(M, d, out)
             ELSE AptCache_commit(M, d, out)
    IN  IF ~r.ok THEN r
        ELSE [r EXCEPT !.M = [r.M EXCEPT !.state = "Clean",
                                         !.planned = NoPlan,
                                         !.user_intent = <<>>,
                                         !.search.index = FALSE]]

\* ManagerState::commit / commit_with_progress: the variant is taken out of
\* *self (leaving Transitioning) and `?` returns before it is put back
MS_commit(M, d, out, with_progress) ==
    IF M.state = "Clean" THEN [M |-> M, disk |-> d, ok |-> TRUE]
    ELSE LET r == PM_commit(IF M.state = "Dirty" THEN PM_plan(M) ELSE M,
                            d, out, with_progress)
         IN  IF r.ok THEN r
             ELSE [r EXCEPT !.M = [r.M EXCEPT !.state = "Transitioning"]]

\* check_apt_lock: the message when a lock file is held
LockHeldError == "Another package manager is running"

\* Mutant of PM_refresh: the registry is rebuilt from the new cache, in name
\* order
PM_refresh_RebuildsRegistry(M, d, lock_held, load_ok) ==
    IF lock_held THEN [M |-> M, ok |-> FALSE, err |-> LockHeldError]
    ELSE IF ~load_ok THEN [M |-> M, ok |-> FALSE, err |-> "Cache::new failed"]
    ELSE [M  |-> compute_cache_counts(
                    [M EXCEPT !.marks = NoMarks,
                              !.status = d,
                              !.user_intent = <<>>,
                              !.fullname_to_id = RegistryOf(SortedNames).fullname_to_id,
                              !.id_to_fullname = RegistryOf(SortedNames).id_to_fullname,
                              !.search = [index |-> FALSE, query |-> "",
                                          results |-> None]]),
          ok |-> TRUE, err |-> ""]

\* Mutant of PM_refresh: the Intent and the search are cleared before the
\* lock is probed
PM_refresh_ClearsBeforeProbe(M, d, lock_held, load_ok) ==
    LET M1 == [M EXCEPT !.user_intent = <<>>,
                        !.search = [index |-> FALSE, query |-> "", results |-> None]]
    IN  IF lock_held THEN [M |-> M1, ok |-> FALSE, err |-> LockHeldError]
        ELSE IF ~load_ok THEN [M |-> M1, ok |-> FALSE, err |-> "Cache::new failed"]
        ELSE [M  |-> compute_cache_counts([M1 EXCEPT !.marks = NoMarks, !.status = d]),
              ok |-> TRUE, err |-> ""]

\* AptCache::refresh followed by the rest of PackageManager::refresh.
\* lock_held: check_apt_lock finds a lock; load_ok: Cache::new succeeds.
PM_refresh(M, d, lock_held, load_ok) ==
    IF lock_held THEN [M |-> M, ok |-> FALSE, err |-> LockHeldError]
    ELSE IF ~load_ok THEN [M |-> M, ok |-> FALSE, err |-> "Cache::new failed"]
    ELSE [M  |-> compute_cache_counts(
                    [M EXCEPT !.marks = NoMarks,
                              !.status = d,
                              !.user_intent = <<>>,
                              !.search = [index |-> FALSE, query |-> "",
                                          results |-> None]]),
          ok |-> TRUE, err |-> ""]

\* PackageManager::ensure_search_index: builds the index when there is none;
\* build_ok: SearchIndex::new and build succeed
ensure_search_index(M, build_ok) ==
    IF M.search.index = FALSE
    THEN IF build_ok THEN [M |-> [M EXCEPT !.search.index = TRUE], ok |-> TRUE]
         ELSE [M |-> M, ok |-> FALSE]
    ELSE [M |-> M, ok |-> TRUE]

(***************************************************************************)
(* Search index (src/src/search.rs): an FTS5 table of (name, summary) of   *)
(* every package of the cache.  Strings the search looks into are given    *)
(* by the characters they are made of.                                     *)
(***************************************************************************)

\* characters of a package base name
NameChars(b) ==
    CASE b = "app" -> << "a", "p", "p" >>
      [] b = "mid" -> << "m", "i", "d" >>
      [] b = "lib" -> << "l", "i", "b" >>
      [] OTHER     -> << >>

\* candidate().summary() of a package, as the words of the text
SummaryWords(b) ==
    CASE b = "app" -> { << "m", "a", "i", "l" >>, << "t", "o", "o", "l" >> }
      [] b = "mid" -> { << "l", "i", "n", "k" >>, << "l", "a", "y", "e", "r" >> }
      [] b = "lib" -> { << "c", "o", "d", "e" >> }
      [] OTHER     -> {}

\* queries a caller may type; QueryChars gives the characters of each
Queries == { "", "li", "zz", "li la", " " }

QueryChars(q) ==
    CASE q = "li"    -> << "l", "i" >>
      [] q = "zz"    -> << "z", "z" >>
      [] q = "li la" -> << "l", "i", " ", "l", "a" >>
      [] q = " "     -> << " " >>
      [] OTHER       -> << >>

\* str::split_whitespace: the maximal runs of non-blank characters
RECURSIVE split_whitespace(_, _)
split_whitespace(chars, word) ==
    IF chars = <<>> THEN (IF word = <<>> THEN <<>> ELSE << word >>)
    ELSE IF Head(chars) = " "
         THEN (IF word = <<>> THEN <<>> ELSE << word >>)
              \o split_whitespace(Tail(chars), <<>>)
         ELSE split_whitespace(Tail(chars), Append(word, Head(chars)))

\* word.replace('"', "")
strip_quotes(word) == SelectSeq(word, LAMBDA c : c # "\"")

IsPrefix(w, t) == Len(w) <= Len(t) /\ SubSeq(t, 1, Len(w)) = w

\* rows SearchIndex::build inserts: one per package of the cache, holding
\* the words of its name and of its summary
IndexedWords(b) == { NameChars(b) } \cup SummaryWords(b)

\* SearchIndex::search: every word of the query, as a prefix, must match a
\* word of the row; a query that leaves no word, or an empty word, is a
\* syntax error of the MATCH expression
SearchIndex_search(q) ==
    IF q = "" THEN [ok |-> TRUE, names |-> {}]
    ELSE LET raw   == split_whitespace(QueryChars(q), <<>>)
             words == [i \in 1..Len(raw) |-> strip_quotes(raw[i])]
         IN  IF words = <<>> \/ \E i \in 1..Len(words) : words[i] = <<>>
             THEN [ok |-> FALSE, names |-> {}]
             ELSE [ok |-> TRUE,
                   names |-> { p[1] : p \in
                       { x \in Universe :
                           \A i \in 1..Len(words) :
                              \E t \in IndexedWords(x[1]) : IsPrefix(words[i], t) } }]

\* PackageManager::set_search_query
set_search_query(M, q) ==
    LET M1 == [M EXCEPT !.search.query = q] IN
    IF q = "" THEN [M |-> [M1 EXCEPT !.search.results = None], ok |-> TRUE]
    ELSE IF M.search.index = TRUE
         THEN LET r == SearchIndex_search(q) IN
              IF r.ok THEN [M |-> [M1 EXCEPT !.search.results = Some(r.names)],
                            ok |-> TRUE]
              ELSE [M |-> M1, ok |-> FALSE]
         ELSE [M |-> M1, ok |-> TRUE]

\* PackageManager::clear_search
clear_search(M) == [M EXCEPT !.search.query = "", !.search.results = None]

\* PackageManager::search_result_count
search_result_count(M) ==
    IF M.search.results = None THEN None
    ELSE Some(Cardinality(M.search.results[1]))

(***************************************************************************)
(* Column widths of the list (rebuild_list, src/src/types.rs ColumnWidths). *)
(***************************************************************************)

\* Lengths of the texts of one package, as the cache reports them
RowTexts ==
    { [section |-> 5,     installed |-> 8,  candidate |-> 8],
      [section |-> 12,    installed |-> 20, candidate |-> 65535],
      [section |-> 65546, installed |-> 70, candidate |-> 131072] }

\* the texts of every package of the cache, by base name
TextProfiles == [ { p[1] : p \in Universe } -> RowTexts ]

\* the cast `as u16`
AsU16(n) == n % 65536

\* ColumnWidths::new
ColumnWidths_new == [name |-> 10, section |-> 7, installed |-> 9, candidate |-> 9]

Max(a, b) == IF a >= b THEN a ELSE b

\* lengths of the display name, section, installed and candidate version of
\* a row: display_name strips the native architecture, a package that is
\* not installed has the empty installed version
RowLengths(M, row, text) ==
    [name      |-> Len(NameChars(row.name[1])),
     section   |-> text[row.name[1]].section,
     installed |-> IF IsInstalled(M.status, row.name) THEN text[row.name[1]].installed
                   ELSE 0,
     candidate |-> text[row.name[1]].candidate]

\* rebuild_list, the column width pass over the rows
RECURSIVE col_widths(_, _, _, _)
col_widths(M, rows, text, w) ==
    IF rows = <<>> THEN w
    ELSE LET l == RowLengths(M, Head(rows), text) IN
         col_widths(M, Tail(rows), text,
                    [name      |-> Max(w.name, AsU16(l.name)),
                     section   |-> Max(w.section, AsU16(l.section)),
                     installed |-> Max(w.installed, AsU16(l.installed)),
                     candidate |-> Max(w.candidate, AsU16(l.candidate))])

\* the ColumnWidths rebuild_list returns when the cache holds the texts `text`
rebuild_list_widths(M, text) ==
    col_widths(M, PM_rebuild_list(M).list, text, ColumnWidths_new)

(***************************************************************************)
(* Progress sink (src/src/progress.rs): ProgressState and the acquire      *)
(* callbacks of TuiAcquireProgress.  Drawing changes no state.             *)
(***************************************************************************)

MAX_ITEMS == 50

\* ProgressState::new
ProgressState_new ==
    [phase |-> "Downloading", percent |-> 0, current_bytes |-> 0,
     total_bytes |-> 0, speed_bps |-> 0, items |-> <<>>,
     install_steps_done |-> 0, install_total_steps |-> 0,
     install_action |-> "", errors |-> <<>>]

\* Mutant of push_item: a full log drops the item that arrives
push_item_DropsNewest(P, item) ==
    LET items == Append(P.items, item) IN
    [P EXCEPT !.items = IF Len(items) > MAX_ITEMS
                        THEN SubSeq(items, 1, MAX_ITEMS) ELSE items]

\* ProgressState::push_item
push_item(P, item) ==
    LET items == Append(P.items, item) IN
    [P EXCEPT !.items = IF Len(items) > MAX_ITEMS THEN Tail(items) ELSE items]

\* TuiAcquireProgress::hit / fetch / done
acq_hit(P, item) ==
    push_item(P, [label |-> << "Hit", item.id >>, short_desc |-> item.short_desc,
                  status |-> "Hit", error |-> None])

acq_fetch(P, item) ==
    push_item(P, [label |-> << "Get", item.id >>, short_desc |-> item.short_desc,
                  status |-> "Fetch", error |-> None])

acq_done(P, item) ==
    push_item(P, [label |-> << "Done", item.id >>, short_desc |-> item.short_desc,
                  status |-> "Done", error |-> None])

\* TuiAcquireProgress::fail
acq_fail(P, item, error_text) ==
    LET P1 == push_item(P, [label |-> << "Err", item.id >>,
                            short_desc |-> item.short_desc,
                            status |-> "Fail", error |-> Some(error_text)])
    IN  IF error_text # ""
        THEN [P1 EXCEPT !.errors = Append(@, << item.short_desc, error_text >>)]
        ELSE P1

\* TuiAcquireProgress::pulse
acq_pulse(P, acq_status) ==
    [P EXCEPT !.percent = acq_status.percent,
              !.current_bytes = acq_status.current_bytes,
              !.total_bytes = acq_status.total_bytes,
              !.speed_bps = acq_status.current_cps]

\* TuiAcquireProgress::start / stop
acq_start(P) == [P EXCEPT !.phase = "Downloading"]

acq_stop(P) == P

(***************************************************************************)
(* State machine.                                                          *)
(***************************************************************************)

MaxCommits == 1

FilterCategories == {"Upgradable", "MarkedChanges", "Installed", "NotInstalled", "All"}

\* the manager value held in the variables
Cur ==
    [state |-> state, user_intent |-> user_intent, planned |-> planned,
     marks |-> marks, status |-> status, fullname_to_id |-> fullname_to_id,
     id_to_fullname |-> id_to_fullname, search |-> search, list |-> list,
     selected_filter |-> selected_filter, counts |-> counts]

Become(M) ==
    /\ state' = M.state
    /\ user_intent' = M.user_intent
    /\ planned' = M.planned
    /\ marks' = M.marks
    /\ status' = M.status
    /\ fullname_to_id' = M.fullname_to_id
    /\ id_to_fullname' = M.id_to_fullname
    /\ search' = M.search
    /\ list' = M.list
    /\ selected_filter' = M.selected_filter
    /\ counts' = M.counts

\* handles the caller can hold: those of the registry
Handles == 0..(Len(id_to_fullname) - 1)

\* ManagerState::new on a system whose package database is d
NewManagerOn(d) ==
    LET reg == RegistryOf(SelectSeq(CacheOrder, LAMBDA p : InCache(d, p))) IN
    PM_rebuild_list(compute_cache_counts(
        [state |-> "Clean", user_intent |-> <<>>, planned |-> NoPlan,
         marks |-> NoMarks, status |-> d,
         fullname_to_id |-> reg.fullname_to_id,
         id_to_fullname |-> reg.id_to_fullname,
         search |-> [index |-> FALSE, query |-> "", results |-> None],
         list |-> <<>>, selected_filter |-> "Upgradable",
         counts |-> [total |-> 0, installed |-> 0, upgradable |-> 0]]))

\* ManagerState::new
NewManager == NewManagerOn(InitialDisk)

\* ManagerState::new on a system of architecture arch with the package
\* database d and the packages of on_hold held
InitWith(arch, on_hold, d) ==
    /\ native_arch = arch
    /\ held = { FN(b) : b \in on_hold }
    /\ progress = ProgressState_new
    /\ acquire = "idle"
    /\ walk = NoWalk
    /\ state = NewManagerOn(d).state
    /\ user_intent = NewManagerOn(d).user_intent
    /\ planned = NewManagerOn(d).planned
    /\ marks = NewManagerOn(d).marks
    /\ status = NewManagerOn(d).status
    /\ fullname_to_id = NewManagerOn(d).fullname_to_id
    /\ id_to_fullname = NewManagerOn(d).id_to_fullname
    /\ search = NewManagerOn(d).search
    /\ list = NewManagerOn(d).list
    /\ selected_filter = NewManagerOn(d).selected_filter
    /\ counts = NewManagerOn(d).counts
    /\ disk = d
    /\ commits = 0

InitOn(arch, on_hold) == InitWith(arch, on_hold, InitialDisk)

Init == InitOn("amd64", {})

Alive == state # "Transitioning"

MarkInstall ==
    /\ Alive
    /\ \E id \in Handles : \E pos \in Positions(user_intent, id) :
         /\ Become(MS_mark(Cur, id, "Install", pos))
    /\ UNCHANGED <<disk, commits, native_arch, held, progress, acquire, walk>>

MarkRemove ==
    /\ Alive
    /\ \E id \in Handles : \E pos \in Positions(user_intent, id) :
         /\ Become(MS_mark(Cur, id, "Remove", pos))
    /\ UNCHANGED <<disk, commits, native_arch, held, progress, acquire, walk>>

Unmark ==
    /\ Alive
    /\ \E id \in Handles :
         /\ Become(MS_unmark(Cur, id))
    /\ UNCHANGED <<disk, commits, native_arch, held, progress, acquire, walk>>

\* values of UserIntent
UserIntents == {"Default", "Install", "Remove", "Hold"}

\* set_intent(id, intent) on the PackageManager<Dirty> a caller holds
SetIntent ==
    /\ state = "Dirty"
    /\ \E id \in Handles : \E intent \in UserIntents :
       \E pos \in Positions(user_intent, id) :
         Become(PM_set_intent(Cur, id, intent, pos))
    /\ UNCHANGED <<disk, commits, native_arch, held, progress, acquire, walk>>

\* toggle(id); pos is where the map puts a new Intent entry
ToggleAt(id, pos) ==
    /\ Alive
    /\ id \in Handles
    /\ pos \in Positions(user_intent, id)
    /\ Become(MS_toggle(Cur, id, pos).M)
    /\ UNCHANGED <<disk, commits, native_arch, held, progress, acquire, walk>>

Toggle == \E id \in Handles : \E pos \in Positions(user_intent, id) : ToggleAt(id, pos)

Reset ==
    /\ Alive
    /\ Become(MS_reset(Cur))
    /\ UNCHANGED <<disk, commits, native_arch, held, progress, acquire, walk>>

ComputePlan ==
    /\ Alive
    /\ Become(MS_compute_plan(Cur))
    /\ UNCHANGED <<disk, commits, native_arch, held, progress, acquire, walk>>

\* What the cache can do with a commit: succeed, fail to open the new Cache,
\* or fail in the transaction after the marks of `applied` took effect
CommitOutcomes ==
    { [kind |-> "ok", applied |-> Universe], [kind |-> "new_fails", applied |-> {}] }
    \cup { [kind |-> "commit_fails", applied |-> a] : a \in SUBSET Universe }

\* commit / commit_with_progress returning Ok (ok) or Err (~ok)
CommitReturns(with_progress, ok) ==
    /\ Alive
    /\ state # "Clean" => commits < MaxCommits
    /\ \E out \in (IF state = "Clean" THEN { [kind |-> "ok", applied |-> {}] }
                   ELSE CommitOutcomes) :
         LET r == MS_commit(Cur, disk, out, with_progress) IN
         /\ ok = (out.kind = "ok")
         /\ commits' = IF state = "Clean" \/ out.kind = "new_fails"
                       THEN commits ELSE commits + 1
         /\ r.ok = ok
         /\ Become(r.M)
         /\ disk' = r.disk
    /\ UNCHANGED <<native_arch, held, progress, acquire, walk>>

Commit == \E ok \in BOOLEAN : CommitReturns(FALSE, ok)

CommitWithProgress == \E ok \in BOOLEAN : CommitReturns(TRUE, ok)

\* refresh with the lock probe finding a lock (lock_held) or not, and the
\* cache loading (load_ok) or not
RefreshProbe(lock_held, load_ok) ==
    /\ Alive
    /\ Become(PM_refresh(Cur, disk, lock_held, load_ok).M)
    /\ UNCHANGED <<disk, commits, native_arch, held, progress, acquire, walk>>

\* refresh returning Ok (ok) or Err (~ok)
RefreshReturns(ok) ==
    \E lock_held \in BOOLEAN, load_ok \in BOOLEAN :
        /\ Alive
        /\ PM_refresh(Cur, disk, lock_held, load_ok).ok = ok
        /\ RefreshProbe(lock_held, load_ok)

Refresh == \E ok \in BOOLEAN : RefreshReturns(ok)

\* ensure_search_index returning Ok (ok) or Err (~ok)
EnsureSearchIndexReturns(ok) ==
    /\ Alive
    /\ \E build_ok \in BOOLEAN :
         LET r == ensure_search_index(Cur, build_ok) IN
         /\ r.ok = ok
         /\ Become(r.M)
    /\ UNCHANGED <<disk, commits, native_arch, held, progress, acquire, walk>>

EnsureSearchIndex == \E ok \in BOOLEAN : EnsureSearchIndexReturns(ok)

ApplyFilter ==
    /\ Alive
    /\ \E f \in FilterCategories :
         /\ Become(MS_apply_filter(Cur, f))
    /\ UNCHANGED <<disk, commits, native_arch, held, progress, acquire, walk>>

RebuildList ==
    /\ Alive
    /\ Become(MS_rebuild_list(Cur))
    /\ UNCHANGED <<disk, commits, native_arch, held, progress, acquire, walk>>

\* set_search_query(q) returning Ok (ok) or Err (~ok)
SetSearchQueryReturns(q, ok) ==
    /\ Alive
    /\ q \in Queries
    /\ set_search_query(Cur, q).ok = ok
    /\ Become(set_search_query(Cur, q).M)
    /\ UNCHANGED <<disk, commits, native_arch, held, progress, acquire, walk>>

SetSearchQuery == \E q \in Queries : \E ok \in BOOLEAN : SetSearchQueryReturns(q, ok)

ClearSearch ==
    /\ Alive
    /\ Become(clear_search(Cur))
    /\ UNCHANGED <<disk, commits, native_arch, held, progress, acquire, walk>>

\* the variables of the manager and of the system it runs on
manager_vars ==
    <<state, user_intent, planned, marks, status, disk, fullname_to_id,
      id_to_fullname, search, list, selected_filter, counts, native_arch,
      commits, held>>

\* Items the native library fetches, and what its status reports at a pulse.
\* The library recomputes the figures at every pulse from the items done and
\* the partial files of its workers: it keeps current_bytes within
\* total_bytes and percent within 0..100, and it no longer counts the bytes
\* of a partial file whose download failed.
AcquireItems == { [id |-> 1, short_desc |-> "lib"] }

AcquireStatuses ==
    { s \in [percent : {0, 40, 100}, current_bytes : {0, 300, 600},
             total_bytes : {600}, current_cps : {0, 100}] :
        s.current_bytes <= s.total_bytes }

MaxItemEvents == 2

MaxOddItems == 1

\* the items of the log that are not plain fetches: hits, completions, failures
Irregular(items) == Len(SelectSeq(items, LAMBDA it : it.status # "Fetch"))

\* the runs explored: up to MaxItemEvents items of any kind, and longer runs
\* of fetches whose log holds up to MaxOddItems items of another kind
LogRoom ==
    \/ Len(progress.items) < MaxItemEvents
    \/ Irregular(progress.items) < MaxOddItems

\* the library starts an acquire run
AcqStart ==
    /\ acquire = "idle"
    /\ progress' = acq_start(progress)
    /\ acquire' = "started"
    /\ UNCHANGED <<manager_vars, walk>>

AcqHit ==
    /\ acquire # "idle"
    /\ LogRoom
    /\ \E item \in AcquireItems : progress' = acq_hit(progress, item)
    /\ UNCHANGED <<acquire, manager_vars, walk>>

AcqFetch ==
    /\ acquire # "idle"
    /\ \E item \in AcquireItems : progress' = acq_fetch(progress, item)
    /\ UNCHANGED <<acquire, manager_vars, walk>>

AcqDone ==
    /\ acquire # "idle"
    /\ LogRoom
    /\ \E item \in AcquireItems : progress' = acq_done(progress, item)
    /\ UNCHANGED <<acquire, manager_vars, walk>>

AcqFail ==
    /\ acquire # "idle"
    /\ LogRoom
    /\ \E item \in AcquireItems : \E error_text \in {"", "404  Not Found"} :
         /\ error_text # "" => Len(progress.errors) < MaxItemEvents
         /\ progress' = acq_fail(progress, item, error_text)
    /\ UNCHANGED <<acquire, manager_vars, walk>>

AcqPulse ==
    /\ acquire # "idle"
    /\ \E acq_status \in AcquireStatuses : progress' = acq_pulse(progress, acq_status)
    /\ acquire' = "pulsed"
    /\ UNCHANGED <<manager_vars, walk>>

\* the acquire run ends
AcqStop ==
    /\ acquire # "idle"
    /\ progress' = acq_stop(progress)
    /\ acquire' = "idle"
    /\ UNCHANGED <<manager_vars, walk>>

\* Dependency graphs package_depends_on can meet: every package of
\* WalkNodes is registered under its native fullname and lists up to
\* MaxDeps dependencies, by bare name; "virt" is a name no package carries
WalkNodes == {"a", "b", "c"}

DepChoices ==
    { << "Depends", "a" >>, << "Depends", "b" >>, << "PreDepends", "c" >>,
      << "Recommends", "a" >>, << "Depends", "virt" >> }

MaxDeps == 2

WalkGraphs == [WalkNodes -> { ds \in SUBSET DepChoices : Cardinality(ds) <= MaxDeps }]

\* package_depends_on(pkg_name, target_base) is entered: visited is empty
\* and to_check holds pkg_name
WalkStart ==
    /\ walk.pc = "idle"
    /\ \E graph \in WalkGraphs : \E pkg_name \in WalkNodes :
       \E target_base \in {"c", "zz"} :
         walk' = walk_enter(graph, pkg_name, target_base)
    /\ UNCHANGED <<manager_vars, progress, acquire>>

\* one turn of `while let Some(current) = to_check.pop()`
WalkStep ==
    /\ walk.pc = "running"
    /\ walk' = walk_step(walk)
    /\ UNCHANGED <<manager_vars, progress, acquire>>

\* package_depends_on returns walk.result and its locals are dropped
WalkReturn ==
    /\ walk.pc = "done"
    /\ walk' = NoWalk
    /\ UNCHANGED <<manager_vars, progress, acquire>>

\* The marking and transaction life cycle of a manager
Next ==
    \/ MarkInstall
    \/ MarkRemove
    \/ Unmark
    \/ Reset
    \/ ComputePlan
    \/ Commit
    \/ CommitWithProgress
    \/ Refresh
    \/ EnsureSearchIndex

Spec == Init /\ [][Next]_vars

\* Architectures dpkg --print-architecture may report
NativeArchs == {"amd64", "arm64"}

InitAnyArch == \E arch \in NativeArchs : InitOn(arch, {})

\* Marking through the package list: toggle next to the explicit mark
\* operations under any category filter, without transactions
NextToggle ==
    \/ MarkInstall
    \/ MarkRemove
    \/ Toggle
    \/ Reset
    \/ ApplyFilter

SpecToggle == InitAnyArch /\ [][NextToggle]_vars

\* The list projection: filters and rebuilds around marking and planning
NextList ==
    \/ MarkInstall
    \/ MarkRemove
    \/ ComputePlan
    \/ Reset
    \/ ApplyFilter
    \/ RebuildList

SpecList == Init /\ [][NextList]_vars

\* Searching: the index, queries and the list they filter, around marking
\* and refreshing
NextSearch ==
    \/ MarkInstall
    \/ Refresh
    \/ EnsureSearchIndex
    \/ SetSearchQuery
    \/ ClearSearch
    \/ ApplyFilter
    \/ RebuildList

SpecSearch == Init /\ [][NextSearch]_vars

\* The acquire callbacks the native library makes during a download whose
\* items are hit, completed or failing
NextProgress ==
    \/ AcqStart
    \/ AcqHit
    \/ AcqDone
    \/ AcqFail
    \/ AcqPulse
    \/ AcqStop

SpecProgress == Init /\ [][NextProgress]_vars

\* The log of item callbacks during a long download: fetches without number,
\* with a few hits, completions and failures among them
NextLog ==
    \/ AcqStart
    \/ AcqHit
    \/ AcqFetch
    \/ AcqDone
    \/ AcqFail

SpecLog == Init /\ [][NextLog]_vars

\* Every way of writing the Intent store, with planning, transactions and
\* refreshes
NextIntent ==
    \/ MarkInstall
    \/ MarkRemove
    \/ Unmark
    \/ SetIntent
    \/ Reset
    \/ ComputePlan
    \/ Commit
    \/ Refresh

SpecIntent == Init /\ [][NextIntent]_vars

\* The dependency walk of the toggle engine on any dependency graph
NextWalk ==
    \/ WalkStart
    \/ WalkStep
    \/ WalkReturn

SpecWalk == Init /\ [][NextWalk]_vars

\* A system on which the package lists do not hold app yet
DiskBeforeUpdate == [InitialDisk EXCEPT ![FN("app")] = "Absent"]

InitUpdate == InitWith("amd64", {}, DiskBeforeUpdate)

\* apt update run on the system: the package lists gain a package, which a
\* cache loaded from now on holds as not installed
ListsGainPackage ==
    /\ \E p \in Universe :
         /\ disk[p] = "Absent"
         /\ disk' = [disk EXCEPT ![p] = "NotInstalled"]
    /\ UNCHANGED <<state, user_intent, planned, marks, status, fullname_to_id,
                   id_to_fullname, search, list, selected_filter, counts,
                   native_arch, commits, held, progress, acquire, walk>>

\* The package list of a manager that is refreshed after the package lists
\* on disk have changed
NextUpdate ==
    \/ ListsGainPackage
    \/ Refresh
    \/ MarkInstall
    \/ Reset
    \/ ApplyFilter
    \/ RebuildList

SpecUpdate == InitUpdate /\ [][NextUpdate]_vars

\* Installed packages the administrator may have put on hold
HoldSets == SUBSET {"mid", "lib"}

InitHeld == \E on_hold \in HoldSets : InitOn("amd64", on_hold)

\* Marking and planning on a system with held packages, where the resolver
\* can fail
NextHeld ==
    \/ MarkInstall
    \/ MarkRemove
    \/ Unmark
    \/ Reset
    \/ ComputePlan

SpecHeld == InitHeld /\ [][NextHeld]_vars

(***************************************************************************)
(* Properties.                                                             *)
(***************************************************************************)

Legal == {"Clean", "Dirty", "Planned"}

\* C1: after any ManagerState operation returns, with Ok or with an error,
\* the state is Clean, Dirty or Planned, never the Transitioning placeholder.
C1_StateAlwaysLegal == state \in Legal

\* C2: when commit() is called in Planned and the cache transaction fails,
\* commit returns the error and the state is still Planned.
C2_FailedCommitStaysPlanned ==
    [][(CommitReturns(FALSE, FALSE) /\ state = "Planned")
          => state' = "Planned"]_vars

\* C3: after commit() returns, on success and on failure alike, Intent is
\* empty: has_marks() is false and is_user_marked(h) is false for every h.
C3_IntentEmptyAfterCommit ==
    [][Commit =>
         /\ state' \in Legal
         /\ has_marks(Cur)' = FALSE
         /\ \A h \in Handles' : is_user_marked(Cur, h)' = FALSE]_vars

\* C4: a successful commit() from Planned ends in Clean with Intent empty and
\* the search index invalidated, having run the transaction of the plan; from
\* Dirty it plans the current Intent and commits that plan, ending in Clean;
\* from Clean it returns Ok without a transaction and stays Clean.
C4_SuccessfulCommit ==
    [][CommitReturns(FALSE, TRUE) =>
         /\ state = "Planned" =>
               /\ state' = "Clean"
               /\ user_intent' = <<>>
               /\ search'.index = FALSE
               /\ commits' = commits + 1
               /\ disk' = ApplyMarks(disk, marks, Changed(marks))
         /\ state = "Dirty" =>
               /\ state' = "Clean"
               /\ user_intent' = <<>>
               /\ search'.index = FALSE
               /\ commits' = commits + 1
               /\ disk' = ApplyMarks(disk, PM_plan(Cur).marks,
                                     Changed(PM_plan(Cur).marks))
         /\ state = "Clean" =>
               /\ state' = "Clean"
               /\ commits' = commits
               /\ disk' = disk
               /\ user_intent' = user_intent
               /\ search' = search
       ]_vars

\* a transaction ran, returned Ok and changed the disk
C4_CommitSucceeded ==
    /\ commits = 1
    /\ disk # InitialDisk
    /\ state = "Clean"
    /\ disk # status

\* C5: in every reachable state, is_clean() implies that Intent is empty and
\* that no package carries a native install / upgrade / delete mark.
C5_CleanHasNoMarks ==
    is_clean(Cur) =>
        /\ user_intent = <<>>
        /\ \A p \in Universe : marks[p] = "Keep"

\* Clean again in a cache reloaded after a transaction changed the disk
C5_CleanAfterTransaction ==
    /\ is_clean(Cur)
    /\ disk # InitialDisk
    /\ status = disk

\* C6: in every reachable state is_clean() holds iff Intent is empty (the
\* first of the equivalences; the second is that Intent is empty iff
\* planned_changes() is None or an empty slice).
C6_CleanIffIntentEmpty ==
    state \in Legal => (is_clean(Cur) <=> user_intent = <<>>)

\* C7: unmark(h) in Dirty leaves the machine Dirty when other Intent entries
\* remain and moves it to Clean exactly when removing h empties Intent.
C7_UnmarkCleanIffEmpty ==
    [][(Unmark /\ state = "Dirty") =>
         IF user_intent' = <<>> THEN state' = "Clean" ELSE state' = "Dirty"]_vars

\* C8: in every reachable Planned state a change has reason UserRequested
\* iff is_user_marked(change.package); a Dependency or AutoRemove change is
\* never on a handle of Intent.
C8_UserRequestedIffMarked ==
    is_planned(Cur) =>
        \A i \in 1..Len(planned.changes) :
            (planned.changes[i].reason = "UserRequested")
                <=> is_user_marked(Cur, planned.changes[i].package)

\* the entries of an Intent in ascending handle order
CanonicalOrder(ui) ==
    LET n == Len(ui)
        f == CHOOSE s \in [1..n -> 1..n] :
                \A i, j \in 1..n : i < j => ui[s[i]].id < ui[s[j]].id
    IN  [i \in 1..n |-> ui[f[i]]]

\* C9: compute_plan() produces the changeset that the Intent alone
\* determines, whatever sequence of operations led to that Intent: the one
\* planned from the same entries taken in handle order.
C9_PlanDependsOnIntentOnly ==
    [][(ComputePlan /\ state = "Dirty") =>
         planned'.changes =
            PM_plan([Cur EXCEPT !.user_intent = CanonicalOrder(user_intent)])
                .planned.changes]_vars

\* C10: for two distinct packages a and b, mark(a); mark(b); compute_plan()
\* and mark(b); mark(a); compute_plan() yield the same set of planned changes.
C10_MarkOrderIrrelevant ==
    [][(ComputePlan /\ state = "Dirty" /\ Len(user_intent) = 2) =>
         SeqRange(planned'.changes) =
            SeqRange(PM_plan([Cur EXCEPT !.user_intent =
                                 << user_intent[2], user_intent[1] >>])
                        .planned.changes)]_vars

(***************************************************************************)
(* Toggle engine properties.                                               *)
(***************************************************************************)

\* handles of the changeset planned_changes() returns (none outside Planned)
ChangesetHandles(M) ==
    IF M.state = "Planned"
    THEN { M.planned.changes[i].package : i \in 1..Len(M.planned.changes) }
    ELSE {}

\* the changeset as a set of (handle, action, reason)
ChangesetOf(M) ==
    IF M.state = "Planned"
    THEN { << M.planned.changes[i].package, M.planned.changes[i].action,
              M.planned.changes[i].reason >> : i \in 1..Len(M.planned.changes) }
    ELSE {}

\* positions the map may give an entry a call inserts
AnyPos == 1..(Cardinality(Universe) + 1)

\* C11: from a state where h is user-marked, toggle(h); toggle(h) ends with
\* the changeset (as a set of handle, action, reason) that planning the
\* original state gives.
C11_ToggleTwiceRestoresPlan ==
    [][\A h \in Handles, pos \in AnyPos :
         (ToggleAt(h, pos) /\ contains_key(user_intent, h)) =>
            \A pos2 \in AnyPos :
               pos2 \in Positions(user_intent', h) =>
                  ChangesetOf(MS_toggle(Cur', h, pos2).M)
                      = ChangesetOf(MS_compute_plan(Cur))]_vars

\* h is a pure dependency at the time of the call: in the changeset (planning
\* first if needed) and not in Intent
PureDependency(M, h) ==
    /\ h \in ChangesetHandles(MS_compute_plan(M))
    /\ ~contains_key(M.user_intent, h)

\* what toggle(h) returns from the current state
ToggleResultOf(h, pos) == MS_toggle(Cur, h, pos).res

\* C12: toggle(h) on a pure dependency returns NoChange, or returns Unmarked
\* having removed at least one Intent entry (and added none) with h no
\* longer in the changeset.
C12_PureDependencyToggle ==
    [][\A h \in Handles, pos \in AnyPos :
         (ToggleAt(h, pos) /\ PureDependency(Cur, h)) =>
            \/ ToggleResultOf(h, pos).kind = "NoChange"
            \/ /\ ToggleResultOf(h, pos).kind = "Unmarked"
               /\ IntentIds(user_intent') \subseteq IntentIds(user_intent)
               /\ IntentIds(user_intent') # IntentIds(user_intent)
               /\ h \notin ChangesetHandles(Cur)']_vars

\* C13: when toggle(h) returns NoChange, Intent is what it was before the call.
C13_NoChangeKeepsIntent ==
    [][\A h \in Handles, pos \in AnyPos :
         (ToggleAt(h, pos) /\ ToggleResultOf(h, pos).kind = "NoChange") =>
            user_intent' = user_intent]_vars

\* base names one Depends / PreDepends edge away from the candidate of base b
DirectBases(b) ==
    IF FN(b) \in Universe
    THEN { d.name : d \in { e \in Depends(FN(b)) : e.kind \in {"Depends", "PreDepends"} } }
    ELSE {}

\* base names reachable from the set `from` over one or more such edges
RECURSIVE ReachableBases(_, _)
ReachableBases(from, seen) ==
    LET next == UNION { DirectBases(b) : b \in from } IN
    IF next \subseteq seen THEN seen
    ELSE ReachableBases(next \ seen, seen \cup next)

\* R: the user-intended handles from which h's base name is reachable
IntentDependingOn(M, h) ==
    { u \in IntentIds(M.user_intent) :
        /\ fullname_of(M, u) # None
        /\ fullname_of(M, h) # None
        /\ fullname_of(M, h)[1][1] \in ReachableBases({ fullname_of(M, u)[1][1] }, {}) }

\* C14: toggle(h) on a pure dependency removes from Intent exactly the
\* entries of R (reachability over Depends/PreDepends, any path length, any
\* native architecture) and leaves every other entry as it was.
C14_RemovesExactlyDependants ==
    [][\A h \in Handles, pos \in AnyPos :
         (ToggleAt(h, pos) /\ PureDependency(Cur, h)) =>
            /\ IntentIds(user_intent') = IntentIds(user_intent) \ IntentDependingOn(Cur, h)
            /\ \A u \in IntentIds(user_intent') :
                  intent_get(user_intent', u) = intent_get(user_intent, u)]_vars

\* C15: toggle(h) on a user-marked h removes only h from Intent, re-plans and
\* returns Unmarked with also_unmarked = the handles other than h that left
\* the changeset, under every category filter.
C15_UnmarkReportsVanished ==
    [][\A h \in Handles, pos \in AnyPos :
         (ToggleAt(h, pos) /\ contains_key(user_intent, h)) =>
            /\ ToggleResultOf(h, pos).kind = "Unmarked"
            /\ user_intent' = intent_remove(user_intent, h)
            /\ state' = "Planned"
            /\ SeqRange(ToggleResultOf(h, pos).others)
                  = (ChangesetHandles(MS_compute_plan(Cur)) \ ChangesetHandles(Cur)') \ {h}]_vars

\* C16: toggle(h) on an unmarked h (neither in Intent nor in the changeset)
\* sets Intent[h] = Install, re-plans and returns Marked with additional =
\* the handles other than h that entered the changeset, under every
\* category filter.
C16_MarkReportsAdditional ==
    [][\A h \in Handles, pos \in AnyPos :
         (/\ ToggleAt(h, pos)
          /\ ~contains_key(user_intent, h)
          /\ h \notin ChangesetHandles(MS_compute_plan(Cur))) =>
            /\ ToggleResultOf(h, pos).kind = "Marked"
            /\ intent_get(user_intent', h) = "Install"
            /\ intent_remove(user_intent', h) = user_intent
            /\ state' = "Planned"
            /\ SeqRange(ToggleResultOf(h, pos).others)
                  = (ChangesetHandles(Cur)' \ ChangesetHandles(MS_compute_plan(Cur))) \ {h}]_vars

\* C17: toggle(h) takes the unmark path exactly when h is in the Planned
\* changeset at the time of the call (planning first if needed), under
\* every category filter.
C17_UnmarkPathIffPlanned ==
    [][\A h \in Handles, pos \in AnyPos :
         ToggleAt(h, pos) =>
            (ToggleResultOf(h, pos).kind # "Marked"
                <=> h \in ChangesetHandles(MS_compute_plan(Cur)))]_vars

(***************************************************************************)
(* Registry, solver conflicts and the lock probe.                          *)
(***************************************************************************)

\* a fullname the cache did not have when the registry was built
FreshName == << "ext", native_arch >>

\* the registry maps handles and fullnames one to one, and id_for keeps it so
RegistryIsBijection ==
    /\ \A n \in DOMAIN fullname_to_id :
          /\ fullname_of(Cur, fullname_to_id[n]) = Some(n)
          /\ id_for(Cur, n).id = fullname_to_id[n]
          /\ id_for(Cur, n).M = Cur
    /\ \A id \in Handles : get_id(Cur, id_to_fullname[id + 1]) = Some(id)
    /\ LET r == id_for(Cur, FreshName) IN
          /\ r.id \notin Handles
          /\ fullname_of(r.M, r.id) = Some(FreshName)
          /\ id_for(r.M, FreshName).id = r.id
          /\ \A id \in Handles : fullname_of(r.M, id) = fullname_of(Cur, id)
          /\ \A n \in DOMAIN fullname_to_id : get_id(r.M, n) = get_id(Cur, n)

SolverConflict(M) ==
    /\ M.state = "Dirty"
    /\ ResolveErrors(ApplyIntent(M, clear_all_marks(M.marks), M.user_intent),
                     M.status) # <<>>

\* C19: with a solver conflict compute_plan() still moves Dirty to Planned,
\* plan_errors() non-empty and Intent unchanged; modify() gives Dirty with the
\* same Intent and no changeset; an unmark followed by compute_plan() gives a
\* Planned state again.
C19_ConflictIsNonFatal ==
    [][/\ (ComputePlan /\ SolverConflict(Cur)) =>
            /\ state' = "Planned"
            /\ plan_errors(Cur)' # None
            /\ plan_errors(Cur)'[1] # <<>>
            /\ user_intent' = user_intent
       /\ (state = "Planned" /\ planned.errors # <<>>) =>
            /\ PM_modify(Cur).state = "Dirty"
            /\ PM_modify(Cur).user_intent = user_intent
            /\ planned_changes(PM_modify(Cur)) = None
       /\ (Unmark /\ state = "Planned" /\ planned.errors # <<>>) =>
            /\ state' = "Dirty"
            /\ planned' = NoPlan
            /\ \E id \in IntentIds(user_intent) :
                  /\ user_intent' = intent_remove(user_intent, id)
                  /\ MS_compute_plan(MS_unmark(Cur, id)).state = "Planned"
                  /\ MS_compute_plan(MS_unmark(Cur, id)).user_intent = user_intent']_vars

\* a plan that carries a solver error
C19_PlannedWithErrors ==
    /\ state = "Planned"
    /\ planned.errors # <<>>
    /\ user_intent # <<>>

\* C20: when the lock probe finds a lock held, refresh() returns the
\* "another package manager is running" error and Intent, the lifecycle
\* state, the changeset, the search state, the list and the counts stay as
\* they were.
C20_LockedRefreshChangesNothing ==
    [][\A load_ok \in BOOLEAN :
         RefreshProbe(TRUE, load_ok) =>
            /\ ~PM_refresh(Cur, disk, TRUE, load_ok).ok
            /\ PM_refresh(Cur, disk, TRUE, load_ok).err = LockHeldError
            /\ UNCHANGED <<user_intent, state, planned, search, list, counts>>]_vars

\* a state with everything a refresh that went through would have cleared
C20_StateARefreshWouldClear ==
    /\ state = "Planned"
    /\ user_intent # <<>>
    /\ planned.changes # <<>>
    /\ search.index = TRUE

(***************************************************************************)
(* Lifetime of Intent entries and of the native marks.                     *)
(***************************************************************************)

\* C21: an Intent entry stays in Intent until an unmark of it, a reset or a
\* successful commit; no other operation (compute_plan, refresh, ...) removes
\* Intent entries.
C21_IntentEntriesPersist ==
    [][\A h \in IntentIds(user_intent) :
         h \notin IntentIds(user_intent') =>
            \/ Unmark /\ user_intent' = intent_remove(user_intent, h)
            \/ Reset
            \/ CommitReturns(FALSE, TRUE)
            \/ CommitReturns(TRUE, TRUE)]_vars

\* packages that carry a native install / upgrade / delete mark
NativelyMarked(M) == { p \in Universe : M.marks[p] # "Keep" }

\* packages the handles of planned_changes() name
PlannedPackages(M) ==
    { fullname_of(M, h)[1] : h \in { c \in ChangesetHandles(M) : fullname_of(M, c) # None } }

\* C22: in every reachable Planned state the packages with a native mark are
\* the packages of planned_changes(), and mark_install, mark_remove and
\* unmark leave the native marks untouched.
C22_NativeMarksMatchPlan ==
    /\ [](is_planned(Cur) => NativelyMarked(Cur) = PlannedPackages(Cur))
    /\ [][(MarkInstall \/ MarkRemove \/ Unmark) => marks' = marks]_vars

(***************************************************************************)
(* Search.                                                                 *)
(***************************************************************************)

\* C23: after a successful refresh() the search index is invalidated and
\* search_result_count() is None; the next set_search_query(q) with a
\* non-empty q (one the index can run) rebuilds the index and stores the
\* results, so that search_result_count() is Some afterwards.
C23_SearchRebuiltAfterRefresh ==
    [][RefreshReturns(TRUE) =>
         /\ search'.index = FALSE
         /\ search_result_count(Cur)' = None
         /\ \A q \in { x \in Queries : x # "" /\ SearchIndex_search(x).ok } :
               /\ set_search_query(Cur', q).ok
               /\ set_search_query(Cur', q).M.search.index = TRUE
               /\ search_result_count(set_search_query(Cur', q).M) # None]_vars

\* the category filter of M on package p
CategoryAdmits(M, p) ==
    \/ M.selected_filter = "All"
    \/ M.selected_filter = "Upgradable" /\ M.status[p] = "Upgradable"
    \/ M.selected_filter = "Installed" /\ M.status[p] # "NotInstalled"
    \/ M.selected_filter = "NotInstalled" /\ M.status[p] = "NotInstalled"
    \/ /\ M.selected_filter = "MarkedChanges"
       /\ \/ M.marks[p] # "Keep"
          \/ \E h \in IntentIds(M.user_intent) : fullname_of(M, h) = Some(p)

\* fullnames of the rows of a list
ListNames(rows) == { rows[i].name : i \in 1..Len(rows) }

\* C24: with no active search the rebuilt list holds every package that
\* passes the category filter; with an active search of result set S
\* (possibly empty) it holds only (and all of) those whose base name is in S;
\* set_search_query("") and clear_search() return to "no active search"
\* (search_result_count() = None); SearchIndex::search("") is the empty set.
C24_SearchFiltersList ==
    /\ [][(ApplyFilter \/ RebuildList) =>
            /\ search.results = None =>
                  ListNames(list') = { p \in Universe : CategoryAdmits(Cur', p) }
            /\ search.results # None =>
                  ListNames(list') =
                     { p \in Universe : /\ CategoryAdmits(Cur', p)
                                        /\ p[1] \in search.results[1] }]_vars
    /\ [][((\E ok \in BOOLEAN : SetSearchQueryReturns("", ok)) \/ ClearSearch) =>
            search_result_count(Cur)' = None]_vars
    /\ [](SearchIndex_search("").ok /\ SearchIndex_search("").names = {})

\* a list rebuilt under an active search that matched nothing
C24_EmptySearchEmptiesList ==
    /\ search.results = Some({})
    /\ search.query = "zz"
    /\ selected_filter = "All"
    /\ list = <<>>

(***************************************************************************)
(* Column widths.                                                          *)
(***************************************************************************)

\* widths of the column headers "Package", "Section", "Installed", "Candidate"
HeaderWidths == [name |-> 7, section |-> 7, installed |-> 9, candidate |-> 9]

\* C25: the ColumnWidths rebuild_list() returns is, in each of name, section,
\* installed and candidate, at least the length of the widest value among
\* the rows of the list and at least the header minimum, for row values of
\* any length.
C25_WidthsFitContent ==
    [][RebuildList =>
         \A text \in TextProfiles :
            LET w == rebuild_list_widths(Cur, text) IN
            /\ w.name >= HeaderWidths.name
            /\ w.section >= HeaderWidths.section
            /\ w.installed >= HeaderWidths.installed
            /\ w.candidate >= HeaderWidths.candidate
            /\ \A i \in 1..Len(list') :
                  LET l == RowLengths(Cur', list'[i], text) IN
                  /\ w.name >= l.name
                  /\ w.section >= l.section
                  /\ w.installed >= l.installed
                  /\ w.candidate >= l.candidate]_vars

(***************************************************************************)
(* Progress.                                                               *)
(***************************************************************************)

\* C26: during an acquire phase current_bytes never decreases from one pulse
\* callback to the next, and percent always lies in [0, 100], for every
\* sequence of start / hit / fetch / done / fail / pulse callbacks.
C26_AcquireProgressMonotone ==
    [][AcqPulse =>
         /\ progress'.percent >= 0
         /\ progress'.percent <= 100
         /\ acquire = "pulsed" =>
               progress'.current_bytes >= progress.current_bytes]_vars

(***************************************************************************)
(* The Planner's changeset.                                                *)
(***************************************************************************)

\* C27: plan() gives every package with a native mark one change: marked for
\* install or upgrade, Upgrade if it is installed and Install if not; marked
\* for delete, Remove; the reason is UserRequested iff the handle is in
\* Intent, else Dependency for Install / Upgrade and AutoRemove for Remove; a
\* package without a mark yields no change, and no change is a Downgrade.
C27_PlanClassifiesMarks ==
    [][(ComputePlan /\ state = "Dirty") =>
         /\ \A p \in Universe :
               LET cs == { c \in SeqRange(planned'.changes) :
                             fullname_of(Cur', c.package) = Some(p) }
               IN  IF marks'[p] = "Keep" THEN cs = {}
                   ELSE /\ Cardinality(cs) = 1
                        /\ \A c \in cs :
                              /\ c.action =
                                    (IF marks'[p] = "Delete" THEN "Remove"
                                     ELSE IF status[p] = "NotInstalled" THEN "Install"
                                     ELSE "Upgrade")
                              /\ c.reason =
                                    (IF c.package \in IntentIds(user_intent)
                                     THEN "UserRequested"
                                     ELSE IF marks'[p] = "Delete" THEN "AutoRemove"
                                     ELSE "Dependency")
         /\ Len(planned'.changes) = Cardinality(NativelyMarked(Cur'))
         /\ \A i \in 1..Len(planned'.changes) :
               planned'.changes[i].action # "Downgrade"]_vars

\* a plan with a requested Install and an Upgrade pulled in as a dependency
C27_InstallWithUpgradedDependency ==
    /\ state = "Planned"
    /\ \E i, j \in 1..Len(planned.changes) :
          /\ planned.changes[i].action = "Install"
          /\ planned.changes[i].reason = "UserRequested"
          /\ planned.changes[j].action = "Upgrade"
          /\ planned.changes[j].reason = "Dependency"

RECURSIVE SumOf(_, _)
SumOf(changes, field) ==
    IF changes = <<>> THEN 0
    ELSE Head(changes)[field] + SumOf(Tail(changes), field)

StatusOfIntent(M, p, intent) ==
    CASE intent = "Install" ->
            IF M.status[p] = "Upgradable" THEN "MarkedForUpgrade" ELSE "MarkedForInstall"
      [] intent = "Remove"  -> "MarkedForRemove"
      [] OTHER              -> "Keep"

\* the Marked* status of a planned action
StatusOfAction(action) ==
    CASE action = "Install" -> "MarkedForInstall"
      [] action = "Remove"  -> "MarkedForRemove"
      [] OTHER              -> "MarkedForUpgrade"

\* what every row of `rows` must show in the Planned manager M
RowsShowIntentThenPlan(M, rows) ==
    \A i \in 1..Len(rows) :
        IF contains_key(M.user_intent, rows[i].id)
        THEN rows[i].status =
                StatusOfIntent(M, rows[i].name, intent_get(M.user_intent, rows[i].id))
        ELSE \A j \in 1..Len(M.planned.changes) :
                M.planned.changes[j].package = rows[i].id =>
                   rows[i].status = StatusOfAction(M.planned.changes[j].action)

\* C30: in Planned state, after any list rebuild (rebuild_list or
\* apply_filter), each row whose handle is in Intent shows the status derived
\* from its intent and each other row whose handle is in the changeset shows
\* the Marked* status of its planned action.
C30_RowsShowIntentThenPlan ==
    [][((ApplyFilter \/ RebuildList) /\ state = "Planned") =>
         RowsShowIntentThenPlan(Cur', list')]_vars

(***************************************************************************)
(* Lifecycle operations.                                                   *)
(***************************************************************************)

\* what mark_install(h) / mark_remove(h) must have done in a step
MarkedAs(intent) ==
    /\ state' = "Dirty"
    /\ planned_changes(Cur') = None
    /\ \E h \in Handles :
          /\ intent_get(user_intent', h) = intent
          /\ \A g \in Handles \ {h} :
                intent_get(user_intent', g) = intent_get(user_intent, g)

\* C31: mark_install(h) and mark_remove(h), called in Clean, Dirty or
\* Planned, end in Dirty with Intent[h] = Install resp. Remove (the last
\* write for h wins), every other Intent entry unchanged and
\* planned_changes() = None.
C31_MarkEndsDirty ==
    [][/\ MarkInstall => MarkedAs("Install")
       /\ MarkRemove => MarkedAs("Remove")]_vars

\* a Dirty state reached by marking over a computed plan: the native marks
\* of the plan are still in the cache, the changeset is gone
C31_MarkedOverAPlan ==
    /\ state = "Dirty"
    /\ marks # NoMarks
    /\ planned_changes(Cur) = None
    /\ \E i, j \in 1..Len(user_intent) :
          user_intent[i].intent = "Install" /\ user_intent[j].intent = "Remove"

\* C32: reset() from Clean, Dirty or Planned ends in Clean with Intent empty,
\* planned_changes() = None and every native mark cleared, and a second
\* reset() changes nothing.
C32_ResetEndsClean ==
    [][Reset =>
         /\ state' = "Clean"
         /\ user_intent' = <<>>
         /\ planned_changes(Cur') = None
         /\ marks' = NoMarks
         /\ MS_reset(Cur') = Cur']_vars

\* a Clean state a reset has produced: the list still shows a mark of the
\* Intent that was reset
C32_CleanAfterReset ==
    /\ state = "Clean"
    /\ \E i \in 1..Len(list) : is_marked(list[i].status)

\* C33: compute_plan() turns Dirty into Planned (also when Intent is empty),
\* leaves Clean as Clean with planned_changes() = None, returns a Planned
\* manager as it is (the solver is not run again, the changeset is the same),
\* and calling it twice gives what calling it once gives.
C33_ComputePlanIsIdempotent ==
    Alive =>
        LET once == MS_compute_plan(Cur) IN
        /\ state = "Dirty" => is_planned(once)
        /\ state = "Clean" => once = Cur /\ planned_changes(once) = None
        /\ state = "Planned" => once = Cur
        /\ MS_compute_plan(once) = once

\* a plan computed for a Dirty manager whose Intent is empty
C33_PlannedWithoutIntent ==
    /\ state = "Planned"
    /\ user_intent = <<>>
    /\ planned_changes(Cur) = Some(<<>>)

(***************************************************************************)
(* The mark preview.                                                       *)
(***************************************************************************)

\* handles a caller can pass: those of the registry and one it never issued
PreviewHandles == 0..Len(id_to_fullname)

\* the changes of the changeset a preview for h after `prev` has to list
ListedChanges(M, h, prev, actions) ==
    SelectSeq(M.planned.changes,
              LAMBDA c : c.package # h /\ c.package \notin prev /\ c.action \in actions)

NamesOf(M, changes) == { preview_name(M, changes[i].package) : i \in 1..Len(changes) }

\* C34: build_mark_preview(h, previously_planned) is None unless the state
\* is Planned and h is a known handle; otherwise its three lists are pairwise
\* disjoint, name exactly the changeset packages that are neither h nor
\* previously planned (Install in installs, Upgrade and Downgrade in upgrades,
\* Remove in removes), and download_size is the sum of the download sizes of
\* h's own change and of the listed changes.
C34_PreviewListsAdditional ==
    Alive =>
      \A h \in PreviewHandles : \A prev \in SUBSET Handles :
        LET r == build_mark_preview(Cur, h, prev) IN
        IF ~(is_planned(Cur) /\ h \in Handles) THEN r = None
        ELSE /\ r # None
             /\ LET p == r[1]
                    ins == SeqRange(p.additional_installs)
                    ups == SeqRange(p.additional_upgrades)
                    rms == SeqRange(p.additional_removes)
                    own == SelectSeq(planned.changes, LAMBDA c : c.package = h)
                    all == {"Install", "Upgrade", "Downgrade", "Remove"}
                IN  /\ ins \cap ups = {} /\ ins \cap rms = {} /\ ups \cap rms = {}
                    /\ ins = NamesOf(Cur, ListedChanges(Cur, h, prev, {"Install"}))
                    /\ ups = NamesOf(Cur, ListedChanges(Cur, h, prev,
                                                        {"Upgrade", "Downgrade"}))
                    /\ rms = NamesOf(Cur, ListedChanges(Cur, h, prev, {"Remove"}))
                    /\ Len(p.additional_installs) + Len(p.additional_upgrades)
                         + Len(p.additional_removes)
                         = Len(ListedChanges(Cur, h, prev, all))
                    /\ p.download_size =
                         SumOf(own, "download_size")
                           + SumOf(ListedChanges(Cur, h, prev, all), "download_size")

\* a plan whose preview for app lists an additional upgrade next to a change
\* that was planned before
C34_PreviewWithAdditionalUpgrade ==
    /\ state = "Planned"
    /\ \E h \in Handles : \E g \in Handles \ {h} :
          LET r == build_mark_preview(Cur, h, {g}) IN
          /\ r # None
          /\ r[1].additional_upgrades # <<>>
          /\ \E i \in 1..Len(planned.changes) : planned.changes[i].package = g
          /\ \E i \in 1..Len(planned.changes) : planned.changes[i].package = h

(***************************************************************************)
(* The dependency walk.                                                    *)
(***************************************************************************)

\* number of dependencies the packages of the cache list
RECURSIVE EdgeCount(_, _)
EdgeCount(graph, nodes) ==
    IF nodes = {} THEN 0
    ELSE LET n == CHOOSE m \in nodes : TRUE IN
         Cardinality(graph[n]) + EdgeCount(graph, nodes \ {n})

\* C35: package_depends_on terminates on every dependency graph, cycles
\* included, and expands each package at most once: no package has its
\* dependencies read twice, and the loop never takes more turns than one per
\* dependency of the cache plus one for the start package.
C35_WalkTerminates ==
    walk.pc # "idle" =>
        /\ \A n \in DOMAIN walk.graph : walk.expanded[n] <= 1
        /\ walk.turns <= 1 + EdgeCount(walk.graph, DOMAIN walk.graph)
        /\ Len(walk.to_check) + walk.turns
              <= 1 + EdgeCount(walk.graph, DOMAIN walk.graph)

\* a walk that ran to the end through a dependency cycle
C35_WalkFinishedOnACycle ==
    /\ walk.pc = "done"
    /\ ~walk.result
    /\ \E m, n \in DOMAIN walk.graph :
          /\ m # n
          /\ << "Depends", n >> \in walk.graph[m]
          /\ << "Depends", m >> \in walk.graph[n]
          /\ walk.expanded[m] = 1 /\ walk.expanded[n] = 1

(***************************************************************************)
(* Order of the Intent entries.                                            *)
(***************************************************************************)

\* the Intent with its entries at positions i and j exchanged
Exchanged(ui, i, j) ==
    [k \in 1..Len(ui) |-> IF k = i THEN ui[j] ELSE IF k = j THEN ui[i] ELSE ui[k]]

\* C36: whichever order plan() applies the Intent entries in, the changeset
\* and the errors it produces are the same: exchanging any two entries of
\* the map's iteration order changes neither.
C36_PlanIgnoresIterationOrder ==
    state = "Dirty" =>
        \A i, j \in 1..Len(user_intent) :
            LET other == PM_plan([Cur EXCEPT !.user_intent =
                                     Exchanged(user_intent, i, j)]).planned
            IN  /\ SeqRange(other.changes) = SeqRange(PM_plan(Cur).planned.changes)
                /\ other.errors = PM_plan(Cur).planned.errors

(***************************************************************************)
(* Handles of the list rows.                                               *)
(***************************************************************************)

\* C37: every row of list() carries a handle the registry resolves to the
\* row's fullname, and no two rows share a handle, also for packages that
\* first appear in the cache after refresh().
C37_RowsCarryResolvableHandles ==
    Alive =>
        /\ \A i \in 1..Len(list) : fullname_of(Cur, list[i].id) = Some(list[i].name)
        /\ \A i, j \in 1..Len(list) : list[i].id = list[j].id => i = j

(***************************************************************************)
(* Counts of the filter categories.                                        *)
(***************************************************************************)

\* C38: with no active search, filter_count(c) is the number of rows list()
\* has after apply_filter(c) and rebuild_list(), for every category c and in
\* every lifecycle state; the MarkedChanges count covers the dependencies
\* shown under that filter.
C38_CountsMatchRows ==
    (Alive /\ search.results = None) =>
        \A c \in FilterCategories :
            filter_count(Cur, c) = Len(MS_rebuild_list(MS_apply_filter(Cur, c)).list)

(***************************************************************************)
(* Unmarking what is not marked.                                           *)
(***************************************************************************)

\* C39: unmark(h) for a handle that is not in Intent changes nothing: the
\* lifecycle state (a Planned state keeps its changeset), Intent and the
\* native marks are as before the call.
C39_UnmarkOfUnmarkedIsNoOp ==
    Alive =>
          \A h \in PreviewHandles :
              ~contains_key(user_intent, h) =>
                 LET after == MS_unmark(Cur, h) IN
                 /\ after.state = state
                 /\ planned_changes(after) = planned_changes(Cur)
                 /\ after.user_intent = user_intent
                 /\ after.marks = marks
                 /\ after = Cur

\* a Planned state with a changeset in which unmark can be called for a
\* dependency, which is in the changeset but not in Intent
C39_PlannedWithUnmarkedDependency ==
    /\ state = "Planned"
    /\ \E h \in Handles :
          /\ ~contains_key(user_intent, h)
          /\ \E i \in 1..Len(planned.changes) : planned.changes[i].package = h

(***************************************************************************)
(* The progress log.                                                       *)
(***************************************************************************)

\* what a callback that pushes an item of status `kind` must have done
Pushed(kind) ==
    LET old == progress.items
        new == progress'.items
    IN  /\ new # <<>>
        /\ new[Len(new)].status = kind
        /\ SubSeq(new, 1, Len(new) - 1) =
              (IF Len(old) < MAX_ITEMS THEN old ELSE Tail(old))

\* C40: after any sequence of hit / fetch / done / fail callbacks the log
\* holds at most MAX_ITEMS items, and they are the most recently pushed
\* items in arrival order: each callback appends its item and, when the log
\* was full, drops the oldest one and nothing else.
C40_LogKeepsNewestItems ==
    /\ [](Len(progress.items) <= MAX_ITEMS)
    /\ [][/\ AcqHit => Pushed("Hit")
          /\ AcqFetch => Pushed("Fetch")
          /\ AcqDone => Pushed("Done")
          /\ AcqFail => Pushed("Fail")]_vars

\* a full log from which a failed item has been dropped: its error is still
\* recorded, its line is gone
C40_FailureScrolledOut ==
    /\ Len(progress.items) = MAX_ITEMS
    /\ progress.errors # <<>>
    /\ \A i \in 1..Len(progress.items) : progress.items[i].status # "Fail"

====
